---- MODULE Spec2Model ----
(***************************************************************************)
(* MOESI directory protocol of the cache system (src/libcachesystem/       *)
(* moesi.c) as an event-driven state machine.  Every esim event handler    *)
(* is one action.  The event kernel keeps the scheduled events ordered by  *)
(* fire time, first scheduled first among equal times, and dispatches the  *)
(* events of the current cycle before the clock advances.                  *)
(***************************************************************************)
EXTENDS Integers, Sequences, FiniteSets, TLC

(***************************************************************************)
(* Bounds of the model                                                     *)
(***************************************************************************)
MaxAccesses == 2        \* top-level loads/stores issued in one behaviour
MaxRetries == 1         \* cap on each module's read_retries / write_retries
MaxStacks == 16         \* size of the arena of mod_stack_t frames

(***************************************************************************)
(* Memory hierarchy: two L1 caches over a shared L2 over main memory, and   *)
(* a second cache, l2b, directly over main memory next to the L2, with one *)
(* L1 cache, l1c, above it.                                                *)
(***************************************************************************)
NoMod == "none"
L1s == {"l1a", "l1b"}
Mods == L1s \cup {"l1c", "l2", "l2b", "mm"}
Addrs == {64, 132}
RandomValues == 0 .. 3

cache_min_block_size == 64
DIR_ENTRY_OWNER_NONE == 0

BlockSize(m) == 64
Latency(m) == IF m \in L1s \cup {"l1c"} THEN 2 ELSE 1
Assoc(m) == IF m = "mm" THEN 2 ELSE 1
NumSets(m) == 1
IsMainMemory(m) == m = "mm"

Sets(m) == 0 .. NumSets(m) - 1
Ways(m) == 0 .. Assoc(m) - 1
ZSize(m) == BlockSize(m) \div cache_min_block_size
ZRange(m) == 0 .. ZSize(m) - 1

\* __mod_get_low_mod: the single module directly below
LowMod(m) ==
    IF m \in L1s THEN "l2"
    ELSE IF m = "l1c" THEN "l2b"
    ELSE IF m \in {"l2", "l2b"} THEN "mm" ELSE NoMod

\* mod->low_net_node->index: index of the module in the network below it
\* (index 0 of a network is the lower module itself)
NodeIndex(m) == IF m \in {"l1b", "l2b"} THEN 2 ELSE 1

\* number of end nodes of mod->high_net (0 when there is no upper network)
EndNodeCount(m) == IF m \in {"l2", "mm"} THEN 3 ELSE IF m = "l2b" THEN 2 ELSE 0

\* list_get(mod->high_net->node_list, i)->user_data
NodeMod(m, i) == CHOOSE u \in Mods : LowMod(u) = m /\ NodeIndex(u) = i

UpperNodes(m) == 1 .. EndNodeCount(m) - 1

StackIds == 1 .. MaxStacks
NoStack == 0
NoLock == <<NoMod, 0, 0>>

States == {"I", "S", "E", "O", "M"}

VARIABLES
    cache,      \* cache[m][set][way] = [tag, state, transient_tag]
    lru,        \* lru[m][set] = ways of the set, most recently used first
    dir,        \* dir[m][set][way][z] = [sharers, owner]
    dlock,      \* dlock[m][set][way] = [lock, holders, queue]
    stacks,     \* arena of access stacks (mod_stack_t), by frame id
    events,     \* scheduled esim events [ev, st, delay], by fire time;
                \* delay is the number of cycles from now
    counters,   \* counters[m] = [read_retries, write_retries]
    access,     \* access[m] = list of top-level stacks in the access list
    issued,     \* number of top-level accesses issued so far
    aborted,    \* name of the failed assertion, "" while none failed
    ctx,        \* ctx[pid] = guest context: state bits, eax, wakeup data
    memory,     \* memory[addr] = 32-bit word of guest memory at addr
    heap_break, \* heap break of the guest memory image
    pages,      \* mapped pages of the guest memory image, by page address
    images,     \* images[pid] = memory image made by the fork of pid:
                \* [memory, heap_break, pages], NoImage while there is none
    futex_sleep_count,  \* emulator-wide count of futex sleeps
    now,        \* real time, in microseconds
    returned,   \* [pid, code, ret] of the last system call handler that returned
    ncalls,     \* number of system calls executed so far
    fatal,      \* message of the fatal error that ended the run, "" while none
    cl_event,   \* cl_event[ev] = OpenCL event: [valid, status, changed, queue,
                \* mutex, cond]
    cl_queue,   \* the command queue: [head, process, lock]; head is the list
                \* of the events of its pending items
    cl_thread   \* cl_thread[t] = host thread in the OpenCL runtime: [fn, pc,
                \* list, i, event, arg, ret, calls]

\* state of the cache system, state of the system-call translator, state of
\* the OpenCL runtime
mvars == <<cache, lru, dir, dlock, stacks, events, counters, access, issued,
           aborted>>
svars == <<ctx, memory, heap_break, pages, images, futex_sleep_count, now,
           returned, ncalls, fatal>>
cvars == <<cl_event, cl_queue, cl_thread>>
vars == <<mvars, svars, cvars>>

(***************************************************************************)
(* Cache, directory and lock primitives                                    *)
(***************************************************************************)
Tag(m, addr) == addr - (addr % BlockSize(m))
SetOf(m, tag) == (tag \div BlockSize(m)) % NumSets(m)

\* cache_set_block
cache_set_block(c, m, set, way, tag, state) ==
    [c EXCEPT ![m][set][way].tag = tag, ![m][set][way].state = state]

\* cache_set_transient_tag
cache_set_transient_tag(c, m, set, way, tag) ==
    [c EXCEPT ![m][set][way].transient_tag = tag]

\* cache_replace_block: the way at the tail of the LRU list
cache_replace_block(l, m, set) == l[m][set][Len(l[m][set])]

\* cache_access_block: promote the way to the head of the LRU list
cache_access_block(l, m, set, way) ==
    [l EXCEPT ![m][set] =
        <<way>> \o SelectSeq(l[m][set], LAMBDA w : w # way)]

\* __mod_find_block: way that holds the tag in a valid state, or whose
\* transient tag is the tag while its directory entry is locked
HitWays(c, dl, m, set, tag) ==
    {w \in Ways(m) :
        \/ c[m][set][w].tag = tag /\ c[m][set][w].state # "I"
        \/ c[m][set][w].transient_tag = tag /\ dl[m][set][w].lock}

FirstWay(S) == CHOOSE w \in S : \A v \in S : w <= v

mod_find_block(c, dl, m, addr) ==
    LET tag == Tag(m, addr)
        set == SetOf(m, tag)
        hw == HitWays(c, dl, m, set, tag)
    IN  IF hw = {}
        THEN [hit |-> FALSE, set |-> set, way |-> 0, tag |-> tag, state |-> "I"]
        ELSE [hit |-> TRUE, set |-> set, way |-> FirstWay(hw), tag |-> tag,
              state |-> c[m][set][FirstWay(hw)].state]

\* dir_entry_group_shared_or_owned
dir_entry_group_shared_or_owned(d, m, set, way) ==
    \E z \in ZRange(m) :
        \/ d[m][set][way][z].sharers # {}
        \/ d[m][set][way][z].owner # DIR_ENTRY_OWNER_NONE

DIR_ENTRY_VALID_OWNER(entry) == entry.owner # DIR_ENTRY_OWNER_NONE

\* sub-blocks z of the block (m, tag) that lie in [addr, addr + size)
SubBlocksIn(m, tag, addr, size) ==
    {z \in ZRange(m) :
        /\ tag + z * cache_min_block_size >= addr
        /\ tag + z * cache_min_block_size < addr + size}

\* dir_lock_unlock: wake up the waiters, release the lock
dir_lock_unlock(dl, lk, id) ==
    [dl EXCEPT ![lk[1]][lk[2]][lk[3]] =
        [lock |-> FALSE, holders |-> @.holders \ {id}, queue |-> <<>>]]

(***************************************************************************)
(* Access stacks and the event kernel                                      *)
(***************************************************************************)
\* mod_stack_create: a zero-initialised frame
mod_stack_create(id, mod, addr, ret_event, ret_stack) ==
    [used |-> TRUE, id |-> id, kind |-> "", mod |-> mod, target_mod |-> NoMod,
     addr |-> addr, tag |-> 0, set |-> 0, way |-> 0, state |-> "I",
     reqs |-> 0, hit |-> FALSE, blocking |-> FALSE, read |-> FALSE, retry |-> FALSE,
     err |-> FALSE, shared |-> FALSE, eviction |-> FALSE,
     writeback |-> FALSE, pending |-> 0, reply_size |-> 0, msg |-> 0,
     except_mod |-> NoMod, src_set |-> 0, src_way |-> 0, src_tag |-> 0,
     dir_lock |-> NoLock, ret_event |-> ret_event, ret_stack |-> ret_stack,
     prior |-> "-"]

FreeStack == [mod_stack_create(0, NoMod, 0, "", NoStack) EXCEPT !.used = FALSE]

UsedStacks == {s \in StackIds : stacks[s].used}
FreeIds(st) == {s \in StackIds : ~st[s].used}
NewId(st) == CHOOSE s \in FreeIds(st) : \A t \in FreeIds(st) : s <= t

Ev(ev, st, delay) == [ev |-> ev, st |-> st, delay |-> delay]

\* esim_schedule_event: insert at now + delay, behind the events already
\* scheduled for that cycle
esim_schedule_event(q, ev, st, delay) ==
    LET k == Cardinality({i \in 1 .. Len(q) : q[i].delay <= delay})
    IN  SubSeq(q, 1, k) \o <<Ev(ev, st, delay)>> \o SubSeq(q, k + 1, Len(q))

\* latency of a message of the given size on a network link
NetLatency(size) == IF size > 8 THEN 3 ELSE 1

\* net_try_send_ev: the receive event fires when the message has arrived
net_try_send_ev(q, size, ev, st) == esim_schedule_event(q, ev, st, NetLatency(size))

\* the event being dispatched: the head of the queue, which it leaves
e == Head(events)
Consume == Tail(events)

\* events scheduled by dir_lock_unlock: each waiter re-runs its
\* dir_lock_event (EV_MOD_FIND_AND_LOCK) one cycle later
RECURSIVE WakeAll(_, _)
WakeAll(q, waiters) ==
    IF waiters = <<>> THEN q
    ELSE WakeAll(esim_schedule_event(q, "EV_MOD_FIND_AND_LOCK", Head(waiters), 1),
                 Tail(waiters))

WakeWaiters(q, dl, lk) == WakeAll(q, dl[lk[1]][lk[2]][lk[3]].queue)

\* mod_stack_return: schedule the return event on the parent, free the frame
ReturnEvents(b, s) ==
    IF stacks[s].ret_stack = NoStack THEN b
    ELSE esim_schedule_event(b, stacks[s].ret_event, stacks[s].ret_stack, 0)

\* the elements of a finite set of integers in increasing order
RECURSIVE SortedSeq(_)
SortedSeq(S) ==
    IF S = {} THEN <<>>
    ELSE LET x == CHOOSE y \in S : \A v \in S : y <= v
         IN  <<x>> \o SortedSeq(S \ {x})

\* create the frames of a sequence of requests [frame, ev] and schedule
\* the first event of each with no delay
RECURSIVE SpawnAll(_, _, _)
SpawnAll(st, b, reqs) ==
    IF reqs = <<>> THEN [st |-> st, b |-> b]
    ELSE LET n == CHOOSE s \in StackIds :
                      ~st[s].used /\ \A u \in StackIds : ~st[u].used => s <= u
         IN  SpawnAll([st EXCEPT ![n] = Head(reqs).frame],
                      esim_schedule_event(b, Head(reqs).ev, n, 0),
                      Tail(reqs))

Ready(ev) == aborted = "" /\ events # <<>> /\ e.ev = ev /\ e.delay = 0

Abort(what) ==
    /\ aborted' = what
    /\ events' = Consume
    /\ UNCHANGED <<cache, lru, dir, dlock, stacks, counters, access, issued>>

(***************************************************************************)
(* Contexts and guest memory of the system-call translator                 *)
(* (Context::ExecuteSyscall and its handlers)                              *)
(***************************************************************************)
MaxCalls == 3           \* system calls executed in one behaviour
MaxTime == 1            \* real time that elapses in one behaviour

\* the contexts of the run: the first is the parent of the others
Pids == {100, 101, 102}
NoPid == 0
RootPid == CHOOSE p \in Pids : \A q \in Pids : p <= q

\* words of guest memory that hold futexes, and the null pointer
FutexAddrs == {64, 128}
GuestAddrs == FutexAddrs

PrimaryBits == {"running", "suspended", "zombie", "finished"}
CauseBits == {"read", "write", "waitpid", "nanosleep", "futex"}

SIM_EAGAIN == 11
SIM_EBADF == 9
MemoryPageSize == 4096
AllOnes == -1
IntMax == 2147483647

\* registers and memory words are 32 bits wide: a word is kept as the int
\* with its bits; the sum of two words wraps around
Add32(a, b) ==
    IF a > 0 /\ b > 0 /\ a > IntMax - b
    THEN (a - IntMax - 1) + (b - IntMax - 1)
    ELSE IF a < 0 /\ b < 0 /\ a < (-IntMax - 1) - b
    THEN (a + IntMax + 1) + (b + IntMax + 1)
    ELSE a + b

\* comparison of two words as unsigned values
UnsignedLess(a, b) == IF (a < 0) = (b < 0) THEN a < b ELSE b < 0

\* bitwise operators on words
RECURSIVE BitAnd(_, _)
BitAnd(a, b) ==
    IF a = 0 \/ b = 0 THEN 0
    ELSE IF a = -1 THEN b
    ELSE IF b = -1 THEN a
    ELSE (a % 2) * (b % 2) + 2 * BitAnd(a \div 2, b \div 2)

RECURSIVE BitOr(_, _)
BitOr(a, b) ==
    IF a = 0 THEN b ELSE IF b = 0 THEN a
    ELSE IF a = -1 \/ b = -1 THEN -1
    ELSE (IF a % 2 = 1 \/ b % 2 = 1 THEN 1 ELSE 0)
         + 2 * BitOr(a \div 2, b \div 2)

RECURSIVE BitXor(_, _)
BitXor(a, b) ==
    IF a = 0 THEN b ELSE IF b = 0 THEN a
    ELSE IF a = -1 THEN -b - 1
    ELSE IF b = -1 THEN -a - 1
    ELSE (IF a % 2 # b % 2 THEN 1 ELSE 0) + 2 * BitXor(a \div 2, b \div 2)

\* misc::RoundUp: the next multiple of align, in unsigned arithmetic
RoundUp(n, align) == Add32(n, (align - (n % align)) % align)

\* the heap break and the mapped pages the loader leaves behind: the data
\* ends inside its last page, and a region above the heap is mapped
LoaderHeapBreak == 2 * MemoryPageSize + 8
LoaderPages == {MemoryPageSize, 2 * MemoryPageSize, 5 * MemoryPageSize}

NoReturn == [pid |-> NoPid, code |-> "", ret |-> 0]

\* the stack pointer the loader leaves in esp
LoaderStackTop == 7 * MemoryPageSize

\* no memory image of its own
NoImage == [memory |-> <<>>, heap_break |-> 0, pages |-> {}]

\* a context in the given state; mem, files and sighand name the memory
\* image, the file table and the signal handler table it points to, 0 for
\* those of the loader and else the pid they were made for
NewContext(state, parent) ==
    [state |-> state, eax |-> 0, ecx |-> 0, esp |-> LoaderStackTop,
     parent |-> parent, exit_code |-> 0,
     mem |-> 0, files |-> 0, sighand |-> 0,
     group_parent |-> NoPid, exit_signal |-> 0, clear_child_tid |-> 0,
     glibc_segment_base |-> 0, glibc_segment_limit |-> 0,
     wakeup_fd |-> 0, wakeup_events |-> 0,
     wakeup_pid |-> 0, wakeup_time |-> 0, wakeup_futex |-> 0,
     wakeup_futex_bitset |-> 0, wakeup_futex_sleep |-> 0]

\* what does not depend on the contexts that exist
GuestInit ==
    /\ memory = [a \in GuestAddrs |-> 0]
    /\ heap_break = LoaderHeapBreak
    /\ pages = LoaderPages
    /\ images = [p \in Pids |-> NoImage]
    /\ futex_sleep_count = 0
    /\ now = 0
    /\ returned = NoReturn
    /\ ncalls = 0
    /\ fatal = ""

ContextInit ==
    /\ ctx = [p \in Pids |->
                 NewContext({"running"},
                            IF p = RootPid THEN NoPid ELSE RootPid)]
    /\ GuestInit

(***************************************************************************)
(* State of the OpenCL runtime (tools/libm2s-clrt): events, the command    *)
(* queue and the host threads that call into the runtime                   *)
(***************************************************************************)
MaxSets == 2            \* cap on the calls of each host thread

\* execution status of a command
CL_COMPLETE == 0
CL_QUEUED == 3

\* the statuses a caller passes: an error code, CL_COMPLETE, CL_QUEUED
ExecStatuses == {-1, CL_COMPLETE, CL_QUEUED}

\* two events of enqueued commands, the event of clFinish, a user event
FinishEvent == "finish"
UserEvent == "user"
ClEvents == {"e1", "e2", FinishEvent, UserEvent}
\* two host threads of the application and the thread of the command queue
ClThreads == {"t1", "t2"}
QueueThread == "queue"
NoThread == ""

\* memory returned by malloc and not yet made an event
NoEvent ==
    [valid |-> FALSE, status |-> CL_QUEUED, changed |-> FALSE,
     queue |-> "NULL", mutex |-> NoThread, cond |-> {}]

\* a thread that is in no call of the runtime
IdleThread ==
    [fn |-> "", pc |-> "", list |-> <<>>, i |-> 0, event |-> "", arg |-> 0,
     ret |-> "", calls |-> 0]

\* no event exists, the command queue is empty
ClrtInit ==
    /\ cl_event = [ev \in ClEvents |-> NoEvent]
    /\ cl_queue = [head |-> <<>>, process |-> 0, lock |-> NoThread]
    /\ cl_thread = [t \in ClThreads \cup {QueueThread} |-> IdleThread]

(***************************************************************************)
(* Initial state: every block invalid, nothing in flight                   *)
(***************************************************************************)
MoesiInit ==
    /\ cache = [m \in Mods |-> [set \in Sets(m) |-> [w \in Ways(m) |->
                   [tag |-> 0, state |-> "I", transient_tag |-> 0]]]]
    /\ lru = [m \in Mods |-> [set \in Sets(m) |->
                   [i \in 1 .. Assoc(m) |-> i - 1]]]
    /\ dir = [m \in Mods |-> [set \in Sets(m) |-> [w \in Ways(m) |->
                   [z \in ZRange(m) |->
                       [sharers |-> {}, owner |-> DIR_ENTRY_OWNER_NONE]]]]]
    /\ dlock = [m \in Mods |-> [set \in Sets(m) |-> [w \in Ways(m) |->
                   [lock |-> FALSE, holders |-> {}, queue |-> <<>>]]]]
    /\ stacks = [s \in StackIds |-> FreeStack]
    /\ events = <<>>
    /\ counters = [m \in Mods |-> [read_retries |-> 0, write_retries |-> 0]]
    /\ access = [m \in Mods |-> <<>>]
    /\ issued = 0
    /\ aborted = ""

Init == MoesiInit /\ ContextInit /\ ClrtInit

(***************************************************************************)
(* Top-level accesses                                                      *)
(***************************************************************************)
\* a retry delay that lacks the added latency
RetryLatencyShort(m) == {r % Latency(m) : r \in RandomValues}

\* RETRY_LATENCY: random() % mod->latency + mod->latency
RETRY_LATENCY(m) == {(r % Latency(m)) + Latency(m) : r \in RandomValues}

TopLevel(s) == stacks[s].used /\ stacks[s].ret_stack = NoStack

\* the state in which the L1 caches other than m hold the line of addr
PeerState(m, addr) ==
    LET p == CHOOSE u \in L1s : u # m
        tag == Tag(p, addr)
        ws == {w \in Ways(p) : /\ cache[p][SetOf(p, tag)][w].tag = tag
                               /\ cache[p][SetOf(p, tag)][w].state # "I"}
    IN  IF ws = {} THEN "I" ELSE cache[p][SetOf(p, tag)][FirstWay(ws)].state

\* the lowest address: the lines are interchangeable (same set, same size,
\* all invalid at first), so the first access of a behaviour goes to it
FirstAddr == CHOOSE a \in Addrs : \A b \in Addrs : a <= b

\* the id of the access of the processor at m, of which one is in flight
AccessId(m) == IF m = "l2b" THEN 3 ELSE IF m = "l1c" THEN 4 ELSE NodeIndex(m)

\* mod_access: a processor issues a load or a store at its L1 cache; one
\* access per L1 is in flight at a time.  The processors run before the
\* events of a cycle are dispatched: the access is issued once the events
\* of the current cycle are done, as the last event of the next cycle.
\* Field prior of the frame records how the other L1 held the line when
\* the access was issued with no other access in flight ("-" when one was).
Issue(m, kind, addr) ==
    /\ aborted = ""
    /\ UNCHANGED <<svars, cvars>>
    /\ issued < MaxAccesses
    /\ IF events = <<>> THEN TRUE ELSE Head(events).delay > 0
    /\ issued = 0 => addr = FirstAddr
    /\ \A s \in UsedStacks : TopLevel(s) => stacks[s].mod # m
    /\ LET s == NewId(stacks)
       IN  /\ stacks' = [stacks EXCEPT ![s] =
                  [mod_stack_create(AccessId(m), m, addr, "", NoStack)
                      EXCEPT !.kind = kind,
                             !.prior = IF UsedStacks = {}
                                       THEN PeerState(m, addr) ELSE "-"]]
           /\ events' = esim_schedule_event(events,
                  IF kind = "load" THEN "EV_MOD_LOAD" ELSE "EV_MOD_STORE", s, 1)
    /\ issued' = issued + 1
    /\ UNCHANGED <<cache, lru, dir, dlock, counters, access, aborted>>

\* mod_access_insert / mod_access_extract
mod_access_insert(a, m, s) == [a EXCEPT ![m] = Append(@, s)]

RECURSIVE RemoveFirst(_, _)
RemoveFirst(q, x) ==
    IF q = <<>> THEN <<>>
    ELSE IF Head(q) = x THEN Tail(q)
    ELSE <<Head(q)>> \o RemoveFirst(Tail(q), x)

mod_access_extract(a, m, s) == [a EXCEPT ![m] = RemoveFirst(@, s)]

(***************************************************************************)
(* mod_handler_load                                                        *)
(***************************************************************************)
Load ==
    /\ Ready("EV_MOD_LOAD")
    /\ UNCHANGED <<svars, cvars>>
    /\ access' = mod_access_insert(access, stacks[e.st].mod, e.st)
    /\ events' = esim_schedule_event(Consume, "EV_MOD_LOAD_LOCK", e.st, 0)
    /\ UNCHANGED <<cache, lru, dir, dlock, stacks, counters, issued, aborted>>

LoadLock ==
    /\ Ready("EV_MOD_LOAD_LOCK")
    /\ UNCHANGED <<svars, cvars>>
    /\ LET s == e.st
           n == NewId(stacks)
           new_stack == [mod_stack_create(stacks[s].id, stacks[s].mod,
                             stacks[s].addr, "EV_MOD_LOAD_ACTION", s)
                         EXCEPT !.blocking = FALSE, !.read = TRUE,
                                !.retry = stacks[s].retry]
       IN  /\ stacks' = [stacks EXCEPT ![n] = new_stack, ![s].reqs = 0]
           /\ events' = esim_schedule_event(Consume, "EV_MOD_FIND_AND_LOCK", n, 0)
    /\ UNCHANGED <<cache, lru, dir, dlock, counters, access, issued, aborted>>

LoadAction ==
    /\ Ready("EV_MOD_LOAD_ACTION")
    /\ UNCHANGED <<svars, cvars>>
    /\ LET s == e.st
           mod == stacks[s].mod
           n == NewId(stacks)
       IN  IF stacks[s].err
           THEN \* error locking: retry
                /\ counters[mod].read_retries < MaxRetries
                /\ counters' = [counters EXCEPT ![mod].read_retries = @ + 1]
                /\ stacks' = [stacks EXCEPT ![s].retry = TRUE]
                /\ \E retry_lat \in RETRY_LATENCY(mod) :
                      events' = esim_schedule_event(Consume,
                                    "EV_MOD_LOAD_LOCK", s, retry_lat)
           ELSE IF stacks[s].state # "I"
           THEN \* hit
                /\ events' = esim_schedule_event(Consume, "EV_MOD_LOAD_FINISH", s, 0)
                /\ UNCHANGED <<stacks, counters>>
           ELSE \* miss
                /\ stacks' = [stacks EXCEPT
                      ![n] = [mod_stack_create(stacks[s].id, mod, stacks[s].tag,
                                  "EV_MOD_LOAD_MISS", s)
                              EXCEPT !.target_mod = LowMod(mod)],
                      ![s].reqs = @ + 1]
                /\ events' = esim_schedule_event(Consume, "EV_MOD_READ_REQUEST", n, 0)
                /\ UNCHANGED counters
    /\ UNCHANGED <<cache, lru, dir, dlock, access, issued, aborted>>

\* a load miss that always installs the block exclusive
LoadMissStateExclusive(shared) == "E"

\* a load miss that takes a shared block as its owner
LoadMissStateOwned(shared) == IF shared THEN "O" ELSE "E"

\* state installed by a load miss, from the return variable 'shared'
LoadMissState(shared) == IF shared THEN "S" ELSE "E"

LoadMiss ==
    /\ Ready("EV_MOD_LOAD_MISS")
    /\ UNCHANGED <<svars, cvars>>
    /\ LET s == e.st
           mod == stacks[s].mod
       IN  IF stacks[s].err
           THEN \* error on read request: unlock block and retry load
                /\ counters[mod].read_retries < MaxRetries
                /\ counters' = [counters EXCEPT ![mod].read_retries = @ + 1]
                /\ dlock' = dir_lock_unlock(dlock, stacks[s].dir_lock, stacks[s].id)
                /\ stacks' = [stacks EXCEPT ![s].retry = TRUE]
                /\ \E retry_lat \in RETRY_LATENCY(mod) :
                      events' = esim_schedule_event(
                          WakeWaiters(Consume, dlock, stacks[s].dir_lock),
                          "EV_MOD_LOAD_LOCK", s, retry_lat)
                /\ UNCHANGED cache
           ELSE /\ cache' = cache_set_block(cache, mod, stacks[s].set,
                      stacks[s].way, stacks[s].tag,
                      LoadMissState(stacks[s].shared))
                /\ events' = esim_schedule_event(Consume, "EV_MOD_LOAD_FINISH", s, 0)
                /\ UNCHANGED <<dlock, stacks, counters>>
    /\ UNCHANGED <<lru, dir, access, issued, aborted>>

LoadFinish ==
    /\ Ready("EV_MOD_LOAD_FINISH")
    /\ UNCHANGED <<svars, cvars>>
    /\ LET s == e.st
       IN  /\ dlock' = dir_lock_unlock(dlock, stacks[s].dir_lock, stacks[s].id)
           /\ access' = mod_access_extract(access, stacks[s].mod, s)
           /\ events' = ReturnEvents(
                  WakeWaiters(Consume, dlock, stacks[s].dir_lock), s)
           /\ stacks' = [stacks EXCEPT ![s] = FreeStack]
    /\ UNCHANGED <<cache, lru, dir, counters, issued, aborted>>

(***************************************************************************)
(* mod_handler_store                                                       *)
(***************************************************************************)
Store ==
    /\ Ready("EV_MOD_STORE")
    /\ UNCHANGED <<svars, cvars>>
    /\ access' = mod_access_insert(access, stacks[e.st].mod, e.st)
    /\ events' = esim_schedule_event(Consume, "EV_MOD_STORE_LOCK", e.st, 0)
    /\ UNCHANGED <<cache, lru, dir, dlock, stacks, counters, issued, aborted>>

StoreLock ==
    /\ Ready("EV_MOD_STORE_LOCK")
    /\ UNCHANGED <<svars, cvars>>
    /\ LET s == e.st
           n == NewId(stacks)
           new_stack == [mod_stack_create(stacks[s].id, stacks[s].mod,
                             stacks[s].addr, "EV_MOD_STORE_ACTION", s)
                         EXCEPT !.blocking = FALSE, !.read = FALSE,
                                !.retry = stacks[s].retry]
       IN  /\ stacks' = [stacks EXCEPT ![n] = new_stack, ![s].reqs = 0]
           /\ events' = esim_schedule_event(Consume, "EV_MOD_FIND_AND_LOCK", n, 0)
    /\ UNCHANGED <<cache, lru, dir, dlock, counters, access, issued, aborted>>

\* a store that takes every block for a hit
StoreHitAlways(state) == TRUE

\* the hit test of a store: state M or E
StoreHit(state) == state \in {"M", "E"}

StoreAction ==
    /\ Ready("EV_MOD_STORE_ACTION")
    /\ UNCHANGED <<svars, cvars>>
    /\ LET s == e.st
           mod == stacks[s].mod
           n == NewId(stacks)
       IN  IF stacks[s].err
           THEN \* error locking: retry
                /\ counters[mod].write_retries < MaxRetries
                /\ counters' = [counters EXCEPT ![mod].write_retries = @ + 1]
                /\ stacks' = [stacks EXCEPT ![s].retry = TRUE]
                /\ \E retry_lat \in RETRY_LATENCY(mod) :
                      events' = esim_schedule_event(Consume,
                                    "EV_MOD_STORE", s, retry_lat)
           ELSE IF StoreHit(stacks[s].state)
           THEN \* hit
                /\ events' = esim_schedule_event(Consume, "EV_MOD_STORE_FINISH", s, 0)
                /\ UNCHANGED <<stacks, counters>>
           ELSE \* miss: state O/S/I
                /\ stacks' = [stacks EXCEPT
                      ![n] = [mod_stack_create(stacks[s].id, mod, stacks[s].tag,
                                  "EV_MOD_STORE_FINISH", s)
                              EXCEPT !.target_mod = LowMod(mod)],
                      ![s].reqs = @ + 1]
                /\ events' = esim_schedule_event(Consume, "EV_MOD_WRITE_REQUEST", n, 0)
                /\ UNCHANGED counters
    /\ UNCHANGED <<cache, lru, dir, dlock, access, issued, aborted>>

StoreFinish ==
    /\ Ready("EV_MOD_STORE_FINISH")
    /\ UNCHANGED <<svars, cvars>>
    /\ LET s == e.st
           mod == stacks[s].mod
       IN  IF stacks[s].err
           THEN \* error in write request: unlock block and retry store
                /\ counters[mod].write_retries < MaxRetries
                /\ counters' = [counters EXCEPT ![mod].write_retries = @ + 1]
                /\ dlock' = dir_lock_unlock(dlock, stacks[s].dir_lock, stacks[s].id)
                /\ stacks' = [stacks EXCEPT ![s].retry = TRUE]
                /\ \E retry_lat \in RETRY_LATENCY(mod) :
                      events' = esim_schedule_event(
                          WakeWaiters(Consume, dlock, stacks[s].dir_lock),
                          "EV_MOD_STORE", s, retry_lat)
                /\ UNCHANGED <<cache, access>>
           ELSE /\ cache' = cache_set_block(cache, mod, stacks[s].set,
                      stacks[s].way, stacks[s].tag, "M")
                /\ dlock' = dir_lock_unlock(dlock, stacks[s].dir_lock, stacks[s].id)
                /\ access' = mod_access_extract(access, mod, s)
                /\ events' = ReturnEvents(
                      WakeWaiters(Consume, dlock, stacks[s].dir_lock), s)
                /\ stacks' = [stacks EXCEPT ![s] = FreeStack]
                /\ UNCHANGED counters
    /\ UNCHANGED <<lru, dir, issued, aborted>>

(***************************************************************************)
(* mod_handler_find_and_lock                                               *)
(***************************************************************************)
\* dir_lock_lock: take the lock, or enqueue the waiter when it is held
dir_lock_lock(dl, lk, s, id) ==
    IF dl[lk[1]][lk[2]][lk[3]].lock
    THEN [ok |-> FALSE,
          dl |-> [dl EXCEPT ![lk[1]][lk[2]][lk[3]].queue = Append(@, s)]]
    ELSE [ok |-> TRUE,
          dl |-> [dl EXCEPT ![lk[1]][lk[2]][lk[3]].lock = TRUE,
                            ![lk[1]][lk[2]][lk[3]].holders = @ \cup {id}]]

\* a test that refuses no caller: every caller waits for a held lock
LockedForNoCaller(dl, lk, blocking) == FALSE

\* a test that refuses blocking callers as well
LockedForAnyCaller(dl, lk, blocking) ==
    dl[lk[1]][lk[2]][lk[3]].lock

\* the non-blocking test of EV_MOD_FIND_AND_LOCK
LockedForCaller(dl, lk, blocking) ==
    dl[lk[1]][lk[2]][lk[3]].lock /\ ~blocking

\* a caller that goes on whatever dir_lock_lock returned
LockTakenAlways(got) == TRUE

\* the caller goes on only when dir_lock_lock returned non-zero
LockTaken(got) == got.ok

FindAndLock ==
    /\ Ready("EV_MOD_FIND_AND_LOCK")
    /\ UNCHANGED <<svars, cvars>>
    /\ LET s == e.st
           ret == stacks[s].ret_stack
           mod == stacks[s].mod
           fb == mod_find_block(cache, dlock, mod, stacks[s].addr)
           way == IF fb.hit THEN fb.way ELSE cache_replace_block(lru, mod, fb.set)
           state == IF fb.hit THEN fb.state ELSE cache[mod][fb.set][way].state
           lk == <<mod, fb.set, way>>
           retdef == [stacks[ret] EXCEPT !.err = FALSE, !.set = 0, !.way = 0,
                                         !.state = "I", !.tag = 0]
           me == [stacks[s] EXCEPT !.hit = fb.hit, !.set = fb.set, !.way = way,
                                   !.tag = fb.tag, !.state = state, !.dir_lock = lk]
           got == dir_lock_lock(dlock, lk, s, stacks[s].id)
       IN  IF ~fb.hit /\ stacks[s].blocking
           THEN Abort("find_and_lock: assert(!stack->blocking)")
           ELSE IF ~fb.hit /\ state = "I"
                   /\ dir_entry_group_shared_or_owned(dir, mod, fb.set, way)
           THEN Abort("find_and_lock: assert(state || !shared_or_owned)")
           ELSE IF LockedForCaller(dlock, lk, stacks[s].blocking)
           THEN \* block already locked: return err to the caller
                /\ stacks' = [stacks EXCEPT ![ret] = [retdef EXCEPT !.err = TRUE],
                                            ![s] = FreeStack]
                /\ events' = esim_schedule_event(Consume,
                                 stacks[s].ret_event, ret, 0)
                /\ UNCHANGED <<cache, lru, dlock, aborted>>
           ELSE IF ~LockTaken(got)
           THEN \* waiting in the lock queue
                /\ dlock' = got.dl
                /\ stacks' = [stacks EXCEPT ![ret] = retdef, ![s] = me]
                /\ events' = Consume
                /\ UNCHANGED <<cache, lru, aborted>>
           ELSE \* entry is locked
                /\ dlock' = got.dl
                /\ cache' = cache_set_transient_tag(cache, mod, fb.set, way, fb.tag)
                /\ lru' = cache_access_block(lru, mod, fb.set, way)
                /\ stacks' = [stacks EXCEPT ![ret] = retdef, ![s] = me]
                /\ events' = esim_schedule_event(Consume,
                                 "EV_MOD_FIND_AND_LOCK_ACTION", s, Latency(mod))
                /\ UNCHANGED aborted
    /\ UNCHANGED <<dir, counters, access, issued>>

\* an eviction on every miss
EvictsVictimAlways(hit, state) == ~hit

\* on miss, evict if victim is a valid block: !stack->hit && stack->state
EvictsVictim(hit, state) == ~hit /\ state # "I"

FindAndLockAction ==
    /\ Ready("EV_MOD_FIND_AND_LOCK_ACTION")
    /\ UNCHANGED <<svars, cvars>>
    /\ LET s == e.st
           n == NewId(stacks)
       IN  IF EvictsVictim(stacks[s].hit, stacks[s].state)
           THEN \* on miss, evict if victim is a valid block
                /\ stacks' = [stacks EXCEPT
                      ![s].eviction = TRUE,
                      ![n] = [mod_stack_create(stacks[s].id, stacks[s].mod, 0,
                                  "EV_MOD_FIND_AND_LOCK_FINISH", s)
                              EXCEPT !.set = stacks[s].set, !.way = stacks[s].way]]
                /\ events' = esim_schedule_event(Consume, "EV_MOD_EVICT", n, 0)
           ELSE /\ events' = esim_schedule_event(Consume,
                                 "EV_MOD_FIND_AND_LOCK_FINISH", s, 0)
                /\ UNCHANGED stacks
    /\ UNCHANGED <<cache, lru, dir, dlock, counters, access, issued, aborted>>

\* an error path that returns with the lock of the block still held
FinishErrorLockKept(dl, lk, id) == dl

\* the lock of the block after a failed eviction: released before the
\* error is returned
FinishErrorLock(dl, lk, id) == dir_lock_unlock(dl, lk, id)

FindAndLockFinish ==
    /\ Ready("EV_MOD_FIND_AND_LOCK_FINISH")
    /\ UNCHANGED <<svars, cvars>>
    /\ LET s == e.st
           ret == stacks[s].ret_stack
           mod == stacks[s].mod
           set == stacks[s].set
           way == stacks[s].way
           cur == cache[mod][set][way].state
           st1 == IF stacks[s].eviction THEN cur ELSE stacks[s].state
           st2 == IF IsMainMemory(mod) /\ st1 = "I" THEN "E" ELSE st1
       IN  IF stacks[s].err
           THEN \* evict produced err: return err
                IF cur = "I"
                THEN Abort("find_and_lock_finish: assert(stack->state)")
                ELSE IF ~stacks[s].eviction
                THEN Abort("find_and_lock_finish: assert(stack->eviction)")
                ELSE /\ dlock' = FinishErrorLock(dlock, stacks[s].dir_lock, stacks[s].id)
                     /\ stacks' = [stacks EXCEPT ![ret].err = TRUE, ![s] = FreeStack]
                     /\ events' = esim_schedule_event(
                            WakeWaiters(Consume, dlock, stacks[s].dir_lock),
                            stacks[s].ret_event, ret, 0)
                     /\ UNCHANGED <<cache, aborted>>
           ELSE IF stacks[s].eviction /\ cur # "I"
           THEN Abort("find_and_lock_finish: assert(!stack->state)")
           ELSE /\ cache' = IF IsMainMemory(mod) /\ st1 = "I"
                            THEN cache_set_block(cache, mod, set, way,
                                     stacks[s].tag, "E")
                            ELSE cache
                /\ stacks' = [stacks EXCEPT
                      ![ret] = [@ EXCEPT !.err = FALSE, !.set = set, !.way = way,
                                         !.state = st2, !.tag = stacks[s].tag,
                                         !.dir_lock = stacks[s].dir_lock],
                      ![s] = FreeStack]
                /\ events' = esim_schedule_event(Consume,
                                 stacks[s].ret_event, ret, 0)
                /\ UNCHANGED <<dlock, aborted>>
    /\ UNCHANGED <<lru, dir, counters, access, issued>>

(***************************************************************************)
(* mod_handler_evict                                                       *)
(***************************************************************************)
\* a clearing that leaves the ownership
ClearNodeSharer(entry, i) ==
    [sharers |-> entry.sharers \ {i}, owner |-> entry.owner]

\* dir_entry_clear_sharer and the owner reset that follows it
ClearNode(entry, i) ==
    [sharers |-> entry.sharers \ {i},
     owner |-> IF entry.owner = i THEN DIR_ENTRY_OWNER_NONE ELSE entry.owner]

Evict ==
    /\ Ready("EV_MOD_EVICT")
    /\ UNCHANGED <<svars, cvars>>
    /\ LET s == e.st
           ret == stacks[s].ret_stack
           mod == stacks[s].mod
           blk == cache[mod][stacks[s].set][stacks[s].way]
           n == NewId(stacks)
       IN  IF blk.state = "I" /\ dir_entry_group_shared_or_owned(dir, mod,
                                     stacks[s].set, stacks[s].way)
           THEN Abort("evict: assert(state || !shared_or_owned)")
           ELSE /\ stacks' = [stacks EXCEPT
                      ![ret].err = FALSE,
                      ![s] = [@ EXCEPT !.tag = blk.tag, !.state = blk.state,
                                       !.src_set = stacks[s].set,
                                       !.src_way = stacks[s].way,
                                       !.src_tag = blk.tag,
                                       !.target_mod = LowMod(mod)],
                      ![n] = [mod_stack_create(stacks[s].id, mod, 0,
                                  "EV_MOD_EVICT_INVALID", s)
                              EXCEPT !.except_mod = NoMod,
                                     !.set = stacks[s].set, !.way = stacks[s].way]]
                /\ events' = esim_schedule_event(Consume, "EV_MOD_INVALIDATE", n, 0)
                /\ UNCHANGED aborted
    /\ UNCHANGED <<cache, lru, dir, dlock, counters, access, issued>>

EvictInvalid ==
    /\ Ready("EV_MOD_EVICT_INVALID")
    /\ UNCHANGED <<svars, cvars>>
    /\ LET s == e.st
           mod == stacks[s].mod
       IN  IF IsMainMemory(mod)
           THEN /\ cache' = cache_set_block(cache, mod, stacks[s].src_set,
                                stacks[s].src_way, 0, "I")
                /\ events' = esim_schedule_event(Consume, "EV_MOD_EVICT_FINISH", s, 0)
           ELSE /\ events' = esim_schedule_event(Consume, "EV_MOD_EVICT_ACTION", s, 0)
                /\ UNCHANGED cache
    /\ UNCHANGED <<lru, dir, dlock, stacks, counters, access, issued, aborted>>

\* an eviction that sends the header only
EvictMessageSizeHeader(mod, state) == 8

\* size of the message sent down: the block and a header for M/O, the
\* header alone for S/E
EvictMessageSize(mod, state) ==
    IF state \in {"M", "O"} THEN BlockSize(mod) + 8 ELSE 8

EvictAction ==
    /\ Ready("EV_MOD_EVICT_ACTION")
    /\ UNCHANGED <<svars, cvars>>
    /\ LET s == e.st
           mod == stacks[s].mod
       IN  IF stacks[s].state = "I"
           THEN /\ events' = esim_schedule_event(Consume, "EV_MOD_EVICT_FINISH", s, 0)
                /\ UNCHANGED stacks
           ELSE IF stacks[s].state \in {"M", "O"}
           THEN \* writeback message of block_size + 8 bytes
                /\ stacks' = [stacks EXCEPT ![s].writeback = TRUE,
                      ![s].msg = EvictMessageSize(mod, stacks[s].state)]
                /\ events' = net_try_send_ev(Consume,
                                 EvictMessageSize(mod, stacks[s].state),
                                 "EV_MOD_EVICT_RECEIVE", s)
           ELSE \* state S/E: message of 8 bytes
                /\ stacks' = [stacks EXCEPT
                      ![s].msg = EvictMessageSize(mod, stacks[s].state)]
                /\ events' = net_try_send_ev(Consume,
                                 EvictMessageSize(mod, stacks[s].state),
                                 "EV_MOD_EVICT_RECEIVE", s)
    /\ UNCHANGED <<cache, lru, dir, dlock, counters, access, issued, aborted>>

EvictReceive ==
    /\ Ready("EV_MOD_EVICT_RECEIVE")
    /\ UNCHANGED <<svars, cvars>>
    /\ LET s == e.st
           n == NewId(stacks)
       IN  /\ stacks' = [stacks EXCEPT
                  ![s].msg = 0,
                  ![n] = [mod_stack_create(stacks[s].id, stacks[s].target_mod,
                              stacks[s].src_tag, "EV_MOD_EVICT_WRITEBACK", s)
                          EXCEPT !.blocking = FALSE, !.read = FALSE,
                                 !.retry = FALSE]]
           /\ events' = esim_schedule_event(Consume, "EV_MOD_FIND_AND_LOCK", n, 0)
    /\ UNCHANGED <<cache, lru, dir, dlock, counters, access, issued, aborted>>

EvictWriteback ==
    /\ Ready("EV_MOD_EVICT_WRITEBACK")
    /\ UNCHANGED <<svars, cvars>>
    /\ LET s == e.st
           ret == stacks[s].ret_stack
           n == NewId(stacks)
       IN  IF stacks[s].err
           THEN \* error locking block
                /\ stacks' = [stacks EXCEPT ![ret].err = TRUE]
                /\ events' = esim_schedule_event(Consume, "EV_MOD_EVICT_REPLY", s, 0)
           ELSE IF ~stacks[s].writeback
           THEN /\ events' = esim_schedule_event(Consume, "EV_MOD_EVICT_PROCESS", s, 0)
                /\ UNCHANGED stacks
           ELSE /\ stacks' = [stacks EXCEPT
                      ![n] = [mod_stack_create(stacks[s].id, stacks[s].target_mod, 0,
                                  "EV_MOD_EVICT_WRITEBACK_EXCLUSIVE", s)
                              EXCEPT !.except_mod = stacks[s].mod,
                                     !.set = stacks[s].set, !.way = stacks[s].way]]
                /\ events' = esim_schedule_event(Consume, "EV_MOD_INVALIDATE", n, 0)
    /\ UNCHANGED <<cache, lru, dir, dlock, counters, access, issued, aborted>>

EvictWritebackExclusive ==
    /\ Ready("EV_MOD_EVICT_WRITEBACK_EXCLUSIVE")
    /\ UNCHANGED <<svars, cvars>>
    /\ LET s == e.st
           target_mod == stacks[s].target_mod
           n == NewId(stacks)
       IN  IF stacks[s].state = "I"
           THEN Abort("evict_writeback_exclusive: assert(state != invalid)")
           ELSE IF stacks[s].state \in {"O", "S"}
           THEN /\ stacks' = [stacks EXCEPT
                      ![n] = [mod_stack_create(stacks[s].id, target_mod,
                                  stacks[s].tag, "EV_MOD_EVICT_WRITEBACK_FINISH", s)
                              EXCEPT !.target_mod = LowMod(target_mod)]]
                /\ events' = esim_schedule_event(Consume, "EV_MOD_WRITE_REQUEST", n, 0)
                /\ UNCHANGED <<cache, lru, dir, dlock, counters, access, issued, aborted>>
           ELSE /\ events' = esim_schedule_event(Consume,
                                 "EV_MOD_EVICT_WRITEBACK_FINISH", s, 0)
                /\ UNCHANGED <<cache, lru, dir, dlock, stacks, counters, access,
                               issued, aborted>>

EvictWritebackFinish ==
    /\ Ready("EV_MOD_EVICT_WRITEBACK_FINISH")
    /\ UNCHANGED <<svars, cvars>>
    /\ LET s == e.st
           ret == stacks[s].ret_stack
       IN  IF stacks[s].err
           THEN \* error in write request
                /\ stacks' = [stacks EXCEPT ![ret].err = TRUE]
                /\ dlock' = dir_lock_unlock(dlock, stacks[s].dir_lock, stacks[s].id)
                /\ events' = esim_schedule_event(
                       WakeWaiters(Consume, dlock, stacks[s].dir_lock),
                       "EV_MOD_EVICT_REPLY", s, 0)
                /\ UNCHANGED cache
           ELSE /\ cache' = cache_set_block(cache, stacks[s].target_mod,
                                stacks[s].set, stacks[s].way, stacks[s].tag, "M")
                /\ events' = esim_schedule_event(Consume, "EV_MOD_EVICT_PROCESS", s, 0)
                /\ UNCHANGED <<dlock, stacks>>
    /\ UNCHANGED <<lru, dir, counters, access, issued, aborted>>

\* an eviction that leaves the directory below as it was
EvictProcessDirKept(d, s) == d

\* remove the evicting node as sharer and owner of the evicted sub-blocks
EvictProcessDir(d, s) ==
    LET mod == stacks[s].mod
        tm == stacks[s].target_mod
        zs == SubBlocksIn(tm, stacks[s].tag, stacks[s].src_tag, BlockSize(mod))
    IN  [d EXCEPT ![tm][stacks[s].set][stacks[s].way] =
            [z \in ZRange(tm) |->
                IF z \in zs THEN ClearNode(@[z], NodeIndex(mod)) ELSE @[z]]]

EvictProcess ==
    /\ Ready("EV_MOD_EVICT_PROCESS")
    /\ UNCHANGED <<svars, cvars>>
    /\ LET s == e.st
       IN  /\ dir' = EvictProcessDir(dir, s)
           /\ dlock' = dir_lock_unlock(dlock, stacks[s].dir_lock, stacks[s].id)
           /\ events' = esim_schedule_event(
                  WakeWaiters(Consume, dlock, stacks[s].dir_lock),
                  "EV_MOD_EVICT_REPLY", s, 0)
    /\ UNCHANGED <<cache, lru, stacks, counters, access, issued, aborted>>

EvictReply ==
    /\ Ready("EV_MOD_EVICT_REPLY")
    /\ UNCHANGED <<svars, cvars>>
    /\ stacks' = [stacks EXCEPT ![e.st].msg = 8]
    /\ events' = net_try_send_ev(Consume, 8, "EV_MOD_EVICT_REPLY_RECEIVE", e.st)
    /\ UNCHANGED <<cache, lru, dir, dlock, counters, access, issued, aborted>>

\* an evict that keeps its victim
EvictReplyBlockKept(c, s) == c

\* invalidate block if there was no error
EvictReplyBlock(c, s) ==
    IF ~stacks[s].err
    THEN cache_set_block(c, stacks[s].mod, stacks[s].src_set,
                         stacks[s].src_way, 0, "I")
    ELSE c

EvictReplyReceive ==
    /\ Ready("EV_MOD_EVICT_REPLY_RECEIVE")
    /\ UNCHANGED <<svars, cvars>>
    /\ LET s == e.st
           mod == stacks[s].mod
       IN  /\ cache' = EvictReplyBlock(cache, s)
           /\ IF dir_entry_group_shared_or_owned(dir, mod, stacks[s].src_set,
                                                 stacks[s].src_way)
              THEN /\ aborted' = "evict_reply_receive: assert(!shared_or_owned)"
                   /\ events' = Consume
                   /\ UNCHANGED stacks
              ELSE /\ stacks' = [stacks EXCEPT ![s].msg = 0]
                   /\ events' = esim_schedule_event(Consume,
                                    "EV_MOD_EVICT_FINISH", s, 0)
                   /\ UNCHANGED aborted
    /\ UNCHANGED <<lru, dir, dlock, counters, access, issued>>

EvictFinish ==
    /\ Ready("EV_MOD_EVICT_FINISH")
    /\ UNCHANGED <<svars, cvars>>
    /\ events' = ReturnEvents(Consume, e.st)
    /\ stacks' = [stacks EXCEPT ![e.st] = FreeStack]
    /\ UNCHANGED <<cache, lru, dir, dlock, counters, access, issued, aborted>>

(***************************************************************************)
(* mod_handler_read_request                                                *)
(***************************************************************************)
UpDown(s) == LowMod(stacks[s].mod) = stacks[s].target_mod

ReadRequest ==
    /\ Ready("EV_MOD_READ_REQUEST")
    /\ UNCHANGED <<svars, cvars>>
    /\ LET s == e.st
           ret == stacks[s].ret_stack
       IN  IF ~(UpDown(s) \/ LowMod(stacks[s].target_mod) = stacks[s].mod)
           THEN Abort("read_request: assert(low_mod)")
           ELSE /\ stacks' = [stacks EXCEPT ![ret].shared = FALSE, ![ret].err = FALSE,
                                            ![s].msg = 8]
                /\ events' = net_try_send_ev(Consume, 8,
                                 "EV_MOD_READ_REQUEST_RECEIVE", s)
                /\ UNCHANGED <<cache, lru, dir, dlock, counters, access, issued, aborted>>

ReadRequestReceive ==
    /\ Ready("EV_MOD_READ_REQUEST_RECEIVE")
    /\ UNCHANGED <<svars, cvars>>
    /\ LET s == e.st
           n == NewId(stacks)
       IN  /\ stacks' = [stacks EXCEPT
                  ![s].msg = 0,
                  ![n] = [mod_stack_create(stacks[s].id, stacks[s].target_mod,
                              stacks[s].addr, "EV_MOD_READ_REQUEST_ACTION", s)
                          EXCEPT !.blocking =
                                     (LowMod(stacks[s].target_mod) = stacks[s].mod),
                                 !.read = TRUE, !.retry = FALSE]]
           /\ events' = esim_schedule_event(Consume, "EV_MOD_FIND_AND_LOCK", n, 0)
    /\ UNCHANGED <<cache, lru, dir, dlock, counters, access, issued, aborted>>

ReadRequestAction ==
    /\ Ready("EV_MOD_READ_REQUEST_ACTION")
    /\ UNCHANGED <<svars, cvars>>
    /\ LET s == e.st
           ret == stacks[s].ret_stack
       IN  IF stacks[s].err /\ ~UpDown(s)
           THEN Abort("read_request_action: assert(up-down)")
           ELSE IF stacks[s].err
           THEN /\ stacks' = [stacks EXCEPT ![ret].err = TRUE, ![s].reply_size = 8]
                /\ events' = esim_schedule_event(Consume,
                                 "EV_MOD_READ_REQUEST_REPLY", s, 0)
                /\ UNCHANGED <<cache, lru, dir, dlock, counters, access, issued, aborted>>
           ELSE /\ events' = esim_schedule_event(Consume,
                                 IF UpDown(s) THEN "EV_MOD_READ_REQUEST_UPDOWN"
                                 ELSE "EV_MOD_READ_REQUEST_DOWNUP", s, 0)
                /\ UNCHANGED <<cache, lru, dir, dlock, stacks, counters, access,
                               issued, aborted>>

\* no owner is asked
OwnerSubBlocksNone(d, tm, set, way, tag, exclude) == {}

\* sub-blocks whose owner must be sent a read request: the first sub-block
\* of each block owned by a node other than the excluded one
OwnerSubBlocks(d, tm, set, way, tag, exclude) ==
    {z \in ZRange(tm) :
        /\ DIR_ENTRY_VALID_OWNER(d[tm][set][way][z])
        /\ d[tm][set][way][z].owner # exclude
        /\ (tag + z * cache_min_block_size)
               % BlockSize(NodeMod(tm, d[tm][set][way][z].owner)) = 0}

\* the read requests sent to the owners of these sub-blocks
OwnerRequests(s, zs, ret_event) ==
    LET tm == stacks[s].target_mod
        zq == SortedSeq(zs)
    IN  [i \in 1 .. Len(zq) |->
            [ev |-> "EV_MOD_READ_REQUEST",
             frame |-> [mod_stack_create(stacks[s].id, tm,
                            stacks[s].tag + zq[i] * cache_min_block_size,
                            ret_event, s)
                        EXCEPT !.target_mod = NodeMod(tm,
                            dir[tm][stacks[s].set][stacks[s].way][zq[i]].owner)]]]

ReadRequestUpdown ==
    /\ Ready("EV_MOD_READ_REQUEST_UPDOWN")
    /\ UNCHANGED <<svars, cvars>>
    /\ LET s == e.st
           mod == stacks[s].mod
           tm == stacks[s].target_mod
           set == stacks[s].set
           way == stacks[s].way
           requested == SubBlocksIn(tm, stacks[s].tag, stacks[s].addr, BlockSize(mod))
           zs == OwnerSubBlocks(dir, tm, set, way, stacks[s].tag, NodeIndex(mod))
           base == [stacks EXCEPT ![s].pending = 1 + Cardinality(zs)]
           sp == SpawnAll(base, Consume,
                     OwnerRequests(s, zs, "EV_MOD_READ_REQUEST_UPDOWN_FINISH"))
           n == NewId(stacks)
       IN  IF stacks[s].state # "I"
           THEN IF stacks[s].addr % BlockSize(mod) # 0
                THEN Abort("read_request_updown: assert(addr % block_size == 0)")
                ELSE IF \E z \in requested : dir[tm][set][way][z].owner = NodeIndex(mod)
                THEN Abort("read_request_updown: assert(owner != mod)")
                ELSE /\ stacks' = sp.st
                     /\ events' = esim_schedule_event(sp.b,
                                      "EV_MOD_READ_REQUEST_UPDOWN_FINISH", s, 0)
                     /\ UNCHANGED <<cache, lru, dir, dlock, counters, access, issued,
                                    aborted>>
           ELSE IF dir_entry_group_shared_or_owned(dir, tm, set, way)
                THEN Abort("read_request_updown: assert(!shared_or_owned)")
                ELSE /\ stacks' = [stacks EXCEPT
                           ![s].pending = 1,
                           ![n] = [mod_stack_create(stacks[s].id, tm, stacks[s].tag,
                                       "EV_MOD_READ_REQUEST_UPDOWN_MISS", s)
                                   EXCEPT !.target_mod = LowMod(tm)]]
                     /\ events' = esim_schedule_event(Consume,
                                      "EV_MOD_READ_REQUEST", n, 0)
                     /\ UNCHANGED <<cache, lru, dir, dlock, counters, access, issued,
                                    aborted>>

ReadRequestUpdownMiss ==
    /\ Ready("EV_MOD_READ_REQUEST_UPDOWN_MISS")
    /\ UNCHANGED <<svars, cvars>>
    /\ LET s == e.st
           ret == stacks[s].ret_stack
       IN  IF stacks[s].err
           THEN /\ dlock' = dir_lock_unlock(dlock, stacks[s].dir_lock, stacks[s].id)
                /\ stacks' = [stacks EXCEPT ![ret].err = TRUE, ![s].reply_size = 8]
                /\ events' = esim_schedule_event(
                       WakeWaiters(Consume, dlock, stacks[s].dir_lock),
                       "EV_MOD_READ_REQUEST_REPLY", s, 0)
                /\ UNCHANGED cache
           ELSE /\ cache' = cache_set_block(cache, stacks[s].target_mod,
                                stacks[s].set, stacks[s].way, stacks[s].tag,
                                IF stacks[s].shared THEN "S" ELSE "E")
                /\ events' = esim_schedule_event(Consume,
                                 "EV_MOD_READ_REQUEST_UPDOWN_FINISH", s, 0)
                /\ UNCHANGED <<dlock, stacks>>
    /\ UNCHANGED <<lru, dir, counters, access, issued, aborted>>

\* a read request up-down that leaves every owner in place
KeepOwners(entries, zsAll, idx) == entries

\* owner set to none for all directory entries not owned by the requester
DropOtherOwners(entries, zsAll, idx) ==
    [z \in zsAll |->
        [entries[z] EXCEPT !.owner =
            IF @ # idx THEN DIR_ENTRY_OWNER_NONE ELSE @]]

\* a read request up-down that makes the requester owner, never sharer
ReadUpdownEntriesUnshared(entries, zsAll, requested, idx) ==
    [shared |-> FALSE,
     entries |-> [z \in zsAll |->
                     IF z \in requested
                     THEN [entries[z] EXCEPT !.owner = idx]
                     ELSE entries[z]]]

\* directory of the target after a read request up-down: owners other than
\* the requester are dropped, the requester becomes sharer of the requested
\* sub-blocks, and their owner if nobody else shares them
ReadUpdownEntries(entries, zsAll, requested, idx) ==
    LET e1 == DropOtherOwners(entries, zsAll, idx)
        e2 == [z \in zsAll |->
                  IF z \in requested
                  THEN [e1[z] EXCEPT !.sharers = @ \cup {idx}]
                  ELSE e1[z]]
        shared == \E z \in requested : Cardinality(e2[z].sharers) > 1
        e3 == [z \in zsAll |->
                  IF ~shared /\ z \in requested
                  THEN [e2[z] EXCEPT !.owner = idx]
                  ELSE e2[z]]
    IN  [shared |-> shared, entries |-> e3]

ReadRequestUpdownFinish ==
    /\ Ready("EV_MOD_READ_REQUEST_UPDOWN_FINISH")
    /\ UNCHANGED <<svars, cvars>>
    /\ LET s == e.st
           ret == stacks[s].ret_stack
           mod == stacks[s].mod
           tm == stacks[s].target_mod
           set == stacks[s].set
           way == stacks[s].way
           requested == SubBlocksIn(tm, stacks[s].tag, stacks[s].addr, BlockSize(mod))
           r == ReadUpdownEntries(dir[tm][set][way], ZRange(tm), requested,
                                  NodeIndex(mod))
       IN  IF stacks[s].pending <= 0
           THEN Abort("read_request_updown_finish: assert(pending > 0)")
           ELSE IF stacks[s].pending > 1
           THEN \* ignore while pending requests
                /\ stacks' = [stacks EXCEPT ![s].pending = @ - 1]
                /\ events' = Consume
                /\ UNCHANGED <<cache, lru, dir, dlock, counters, access, issued, aborted>>
           ELSE /\ dir' = [dir EXCEPT ![tm][set][way] = r.entries]
                /\ stacks' = [stacks EXCEPT ![ret].shared = r.shared,
                                            ![s].pending = 0,
                                            ![s].reply_size = BlockSize(mod) + 8]
                /\ dlock' = dir_lock_unlock(dlock, stacks[s].dir_lock, stacks[s].id)
                /\ events' = esim_schedule_event(
                       WakeWaiters(Consume, dlock, stacks[s].dir_lock),
                       "EV_MOD_READ_REQUEST_REPLY", s, 0)
                /\ UNCHANGED <<cache, lru, counters, access, issued, aborted>>

\* a reply that never carries the block
DownupReplySizeHeader(tm, state, zs) == 8

\* reply size of a read request down-up: the header alone when the block is
\* E or S and no owner is sent a read request, the block with it otherwise
DownupReplySize(tm, state, zs) ==
    IF state \in {"E", "S"} /\ zs = {} THEN 8 ELSE BlockSize(tm) + 8

ReadRequestDownup ==
    /\ Ready("EV_MOD_READ_REQUEST_DOWNUP")
    /\ UNCHANGED <<svars, cvars>>
    /\ LET s == e.st
           tm == stacks[s].target_mod
           zs == OwnerSubBlocks(dir, tm, stacks[s].set, stacks[s].way,
                                stacks[s].tag, DIR_ENTRY_OWNER_NONE)
           base == [stacks EXCEPT
                       ![s].pending = 1 + Cardinality(zs),
                       ![s].reply_size = DownupReplySize(tm, stacks[s].state, zs)]
           sp == SpawnAll(base, Consume,
                     OwnerRequests(s, zs, "EV_MOD_READ_REQUEST_DOWNUP_FINISH"))
       IN  IF stacks[s].state = "I"
           THEN Abort("read_request_downup: assert(state != invalid)")
           ELSE /\ stacks' = sp.st
                /\ events' = esim_schedule_event(sp.b,
                                 "EV_MOD_READ_REQUEST_DOWNUP_FINISH", s, 0)
                /\ UNCHANGED <<cache, lru, dir, dlock, counters, access, issued, aborted>>

ReadRequestDownupFinish ==
    /\ Ready("EV_MOD_READ_REQUEST_DOWNUP_FINISH")
    /\ UNCHANGED <<svars, cvars>>
    /\ LET s == e.st
           tm == stacks[s].target_mod
           set == stacks[s].set
           way == stacks[s].way
       IN  IF stacks[s].pending <= 0
           THEN Abort("read_request_downup_finish: assert(pending > 0)")
           ELSE IF stacks[s].pending > 1
           THEN /\ stacks' = [stacks EXCEPT ![s].pending = @ - 1]
                /\ events' = Consume
                /\ UNCHANGED <<cache, lru, dir, dlock, counters, access, issued, aborted>>
           ELSE /\ dir' = [dir EXCEPT ![tm][set][way] =
                              [z \in ZRange(tm) |->
                                  [@[z] EXCEPT !.owner = DIR_ENTRY_OWNER_NONE]]]
                /\ cache' = cache_set_block(cache, tm, set, way, stacks[s].tag, "S")
                /\ stacks' = [stacks EXCEPT ![s].pending = 0]
                /\ dlock' = dir_lock_unlock(dlock, stacks[s].dir_lock, stacks[s].id)
                /\ events' = esim_schedule_event(
                       WakeWaiters(Consume, dlock, stacks[s].dir_lock),
                       "EV_MOD_READ_REQUEST_REPLY", s, 0)
                /\ UNCHANGED <<lru, counters, access, issued, aborted>>

ReadRequestReply ==
    /\ Ready("EV_MOD_READ_REQUEST_REPLY")
    /\ UNCHANGED <<svars, cvars>>
    /\ LET s == e.st
       IN  IF stacks[s].reply_size = 0
           THEN Abort("read_request_reply: assert(reply_size)")
           ELSE /\ stacks' = [stacks EXCEPT ![s].msg = stacks[s].reply_size]
                /\ events' = net_try_send_ev(Consume, stacks[s].reply_size,
                                 "EV_MOD_READ_REQUEST_FINISH", s)
                /\ UNCHANGED <<cache, lru, dir, dlock, counters, access, issued, aborted>>

ReadRequestFinish ==
    /\ Ready("EV_MOD_READ_REQUEST_FINISH")
    /\ UNCHANGED <<svars, cvars>>
    /\ events' = ReturnEvents(Consume, e.st)
    /\ stacks' = [stacks EXCEPT ![e.st] = FreeStack]
    /\ UNCHANGED <<cache, lru, dir, dlock, counters, access, issued, aborted>>

(***************************************************************************)
(* mod_handler_write_request                                               *)
(***************************************************************************)
WriteRequest ==
    /\ Ready("EV_MOD_WRITE_REQUEST")
    /\ UNCHANGED <<svars, cvars>>
    /\ LET s == e.st
           ret == stacks[s].ret_stack
       IN  IF ~(UpDown(s) \/ LowMod(stacks[s].target_mod) = stacks[s].mod)
           THEN Abort("write_request: assert(low_mod)")
           ELSE /\ stacks' = [stacks EXCEPT ![ret].err = FALSE, ![s].msg = 8]
                /\ events' = net_try_send_ev(Consume, 8,
                                 "EV_MOD_WRITE_REQUEST_RECEIVE", s)
                /\ UNCHANGED <<cache, lru, dir, dlock, counters, access, issued, aborted>>

WriteRequestReceive ==
    /\ Ready("EV_MOD_WRITE_REQUEST_RECEIVE")
    /\ UNCHANGED <<svars, cvars>>
    /\ LET s == e.st
           n == NewId(stacks)
       IN  /\ stacks' = [stacks EXCEPT
                  ![s].msg = 0,
                  ![n] = [mod_stack_create(stacks[s].id, stacks[s].target_mod,
                              stacks[s].addr, "EV_MOD_WRITE_REQUEST_ACTION", s)
                          EXCEPT !.blocking =
                                     (LowMod(stacks[s].target_mod) = stacks[s].mod),
                                 !.read = FALSE, !.retry = FALSE]]
           /\ events' = esim_schedule_event(Consume, "EV_MOD_FIND_AND_LOCK", n, 0)
    /\ UNCHANGED <<cache, lru, dir, dlock, counters, access, issued, aborted>>

WriteRequestAction ==
    /\ Ready("EV_MOD_WRITE_REQUEST_ACTION")
    /\ UNCHANGED <<svars, cvars>>
    /\ LET s == e.st
           ret == stacks[s].ret_stack
           n == NewId(stacks)
       IN  IF stacks[s].err /\ ~UpDown(s)
           THEN Abort("write_request_action: assert(up-down)")
           ELSE IF stacks[s].err
           THEN /\ stacks' = [stacks EXCEPT ![ret].err = TRUE, ![s].reply_size = 8]
                /\ events' = esim_schedule_event(Consume,
                                 "EV_MOD_WRITE_REQUEST_REPLY", s, 0)
                /\ UNCHANGED <<cache, lru, dir, dlock, counters, access, issued, aborted>>
           ELSE \* invalidate the rest of upper level sharers
                /\ stacks' = [stacks EXCEPT
                      ![n] = [mod_stack_create(stacks[s].id, stacks[s].target_mod, 0,
                                  "EV_MOD_WRITE_REQUEST_EXCLUSIVE", s)
                              EXCEPT !.except_mod = stacks[s].mod,
                                     !.set = stacks[s].set, !.way = stacks[s].way]]
                /\ events' = esim_schedule_event(Consume, "EV_MOD_INVALIDATE", n, 0)
                /\ UNCHANGED <<cache, lru, dir, dlock, counters, access, issued, aborted>>

WriteRequestExclusive ==
    /\ Ready("EV_MOD_WRITE_REQUEST_EXCLUSIVE")
    /\ UNCHANGED <<svars, cvars>>
    /\ events' = esim_schedule_event(Consume,
                     IF UpDown(e.st) THEN "EV_MOD_WRITE_REQUEST_UPDOWN"
                     ELSE "EV_MOD_WRITE_REQUEST_DOWNUP", e.st, 0)
    /\ UNCHANGED <<cache, lru, dir, dlock, stacks, counters, access, issued, aborted>>

WriteRequestUpdown ==
    /\ Ready("EV_MOD_WRITE_REQUEST_UPDOWN")
    /\ UNCHANGED <<svars, cvars>>
    /\ LET s == e.st
           tm == stacks[s].target_mod
           n == NewId(stacks)
       IN  IF stacks[s].state \in {"M", "E"}
           THEN /\ events' = esim_schedule_event(Consume,
                                 "EV_MOD_WRITE_REQUEST_UPDOWN_FINISH", s, 0)
                /\ UNCHANGED stacks
           ELSE \* state O/S/I
                /\ stacks' = [stacks EXCEPT
                      ![n] = [mod_stack_create(stacks[s].id, tm, stacks[s].tag,
                                  "EV_MOD_WRITE_REQUEST_UPDOWN_FINISH", s)
                              EXCEPT !.target_mod = LowMod(tm)]]
                /\ events' = esim_schedule_event(Consume, "EV_MOD_WRITE_REQUEST", n, 0)
    /\ UNCHANGED <<cache, lru, dir, dlock, counters, access, issued, aborted>>

\* a write request up-down that records the sharer but not the owner
WriteUpdownEntriesUnowned(entries, zsAll, requested, idx) ==
    [z \in zsAll |->
        IF z \in requested
        THEN [entries[z] EXCEPT !.sharers = @ \cup {idx}]
        ELSE entries[z]]

\* the requester becomes sharer and owner of the requested sub-blocks
WriteUpdownEntries(entries, zsAll, requested, idx) ==
    [z \in zsAll |->
        IF z \in requested
        THEN [sharers |-> entries[z].sharers \cup {idx}, owner |-> idx]
        ELSE entries[z]]

\* a write request up-down that leaves every target block modified
WriteUpdownStateModified(state) == "M"

\* state of the target block after a write request up-down: M->M, else E
WriteUpdownState(state) == IF state # "M" THEN "E" ELSE "M"

WriteRequestUpdownFinish ==
    /\ Ready("EV_MOD_WRITE_REQUEST_UPDOWN_FINISH")
    /\ UNCHANGED <<svars, cvars>>
    /\ LET s == e.st
           ret == stacks[s].ret_stack
           mod == stacks[s].mod
           tm == stacks[s].target_mod
           set == stacks[s].set
           way == stacks[s].way
           requested == SubBlocksIn(tm, stacks[s].tag, stacks[s].addr, BlockSize(mod))
           entries == WriteUpdownEntries(dir[tm][set][way], ZRange(tm), requested,
                                         NodeIndex(mod))
       IN  IF stacks[s].err
           THEN \* error in write request to next cache level
                /\ stacks' = [stacks EXCEPT ![ret].err = TRUE, ![s].reply_size = 8]
                /\ dlock' = dir_lock_unlock(dlock, stacks[s].dir_lock, stacks[s].id)
                /\ events' = esim_schedule_event(
                       WakeWaiters(Consume, dlock, stacks[s].dir_lock),
                       "EV_MOD_WRITE_REQUEST_REPLY", s, 0)
                /\ UNCHANGED <<cache, lru, dir, counters, access, issued, aborted>>
           ELSE IF stacks[s].addr % BlockSize(mod) # 0
           THEN Abort("write_request_updown_finish: assert(addr % block_size == 0)")
           ELSE IF \E z \in requested : Cardinality(entries[z].sharers) # 1
           THEN /\ aborted' = "write_request_updown_finish: assert(num_sharers == 1)"
                /\ dir' = [dir EXCEPT ![tm][set][way] = entries]
                /\ events' = Consume
                /\ UNCHANGED <<cache, lru, dlock, stacks, counters, access, issued>>
           ELSE /\ dir' = [dir EXCEPT ![tm][set][way] = entries]
                /\ cache' = IF stacks[s].state # "M"
                            THEN cache_set_block(cache, tm, set, way, stacks[s].tag,
                                     WriteUpdownState(stacks[s].state))
                            ELSE cache
                /\ dlock' = dir_lock_unlock(dlock, stacks[s].dir_lock, stacks[s].id)
                /\ stacks' = [stacks EXCEPT ![s].reply_size = BlockSize(mod) + 8]
                /\ events' = esim_schedule_event(
                       WakeWaiters(Consume, dlock, stacks[s].dir_lock),
                       "EV_MOD_WRITE_REQUEST_REPLY", s, 0)
                /\ UNCHANGED <<lru, counters, access, issued, aborted>>

WriteRequestDownup ==
    /\ Ready("EV_MOD_WRITE_REQUEST_DOWNUP")
    /\ UNCHANGED <<svars, cvars>>
    /\ LET s == e.st
           tm == stacks[s].target_mod
       IN  IF stacks[s].state = "I"
           THEN Abort("write_request_downup: assert(state != invalid)")
           ELSE IF dir_entry_group_shared_or_owned(dir, tm, stacks[s].set,
                                                   stacks[s].way)
           THEN Abort("write_request_downup: assert(!shared_or_owned)")
           ELSE /\ stacks' = [stacks EXCEPT ![s].reply_size =
                                 IF stacks[s].state \in {"M", "O"}
                                 THEN BlockSize(tm) + 8 ELSE 8]
                /\ cache' = cache_set_block(cache, tm, stacks[s].set,
                                stacks[s].way, 0, "I")
                /\ dlock' = dir_lock_unlock(dlock, stacks[s].dir_lock, stacks[s].id)
                /\ events' = esim_schedule_event(
                       WakeWaiters(Consume, dlock, stacks[s].dir_lock),
                       "EV_MOD_WRITE_REQUEST_REPLY", s, 0)
                /\ UNCHANGED <<lru, dir, counters, access, issued, aborted>>

WriteRequestReply ==
    /\ Ready("EV_MOD_WRITE_REQUEST_REPLY")
    /\ UNCHANGED <<svars, cvars>>
    /\ LET s == e.st
       IN  IF stacks[s].reply_size = 0
           THEN Abort("write_request_reply: assert(reply_size)")
           ELSE /\ stacks' = [stacks EXCEPT ![s].msg = stacks[s].reply_size]
                /\ events' = net_try_send_ev(Consume, stacks[s].reply_size,
                                 "EV_MOD_WRITE_REQUEST_FINISH", s)
                /\ UNCHANGED <<cache, lru, dir, dlock, counters, access, issued, aborted>>

WriteRequestFinish ==
    /\ Ready("EV_MOD_WRITE_REQUEST_FINISH")
    /\ UNCHANGED <<svars, cvars>>
    /\ events' = ReturnEvents(Consume, e.st)
    /\ stacks' = [stacks EXCEPT ![e.st] = FreeStack]
    /\ UNCHANGED <<cache, lru, dir, dlock, counters, access, issued, aborted>>

(***************************************************************************)
(* mod_handler_invalidate                                                  *)
(***************************************************************************)
\* an invalidation that spares no sharer, the excepted module included
InvalidatedNodesAll(m, entry, except_mod) ==
    {i \in UpperNodes(m) : i \in entry.sharers}

\* upper-level nodes of a sub-block entry that an invalidation removes
InvalidatedNodes(m, entry, except_mod) ==
    {i \in UpperNodes(m) : i \in entry.sharers /\ NodeMod(m, i) # except_mod}

\* an invalidation that leaves the entry as it was
InvalidateEntryKept(m, entry, except_mod) == entry

\* the entry after the invalidation
InvalidateEntry(m, entry, except_mod) ==
    LET gone == InvalidatedNodes(m, entry, except_mod)
    IN  [sharers |-> entry.sharers \ gone,
         owner |-> IF entry.owner \in gone THEN DIR_ENTRY_OWNER_NONE
                   ELSE entry.owner]

\* write requests sent upwards: one per invalidated sharer per block of
\* that sharer, in the order of the loops over z and i
RECURSIVE InvalidateRequests(_, _, _, _)
InvalidateRequests(s, tag, z, i) ==
    LET mod == stacks[s].mod
        entry == dir[mod][stacks[s].set][stacks[s].way][z]
        dir_entry_tag == tag + z * cache_min_block_size
    IN  IF z >= ZSize(mod) THEN <<>>
        ELSE IF i >= EndNodeCount(mod) THEN InvalidateRequests(s, tag, z + 1, 1)
        ELSE IF /\ i \in InvalidatedNodes(mod, entry, stacks[s].except_mod)
                /\ dir_entry_tag % BlockSize(NodeMod(mod, i)) = 0
        THEN <<[ev |-> "EV_MOD_WRITE_REQUEST",
                frame |-> [mod_stack_create(stacks[s].id, mod, dir_entry_tag,
                               "EV_MOD_INVALIDATE_FINISH", s)
                           EXCEPT !.target_mod = NodeMod(mod, i)]]>>
             \o InvalidateRequests(s, tag, z, i + 1)
        ELSE InvalidateRequests(s, tag, z, i + 1)

Invalidate ==
    /\ Ready("EV_MOD_INVALIDATE")
    /\ UNCHANGED <<svars, cvars>>
    /\ LET s == e.st
           mod == stacks[s].mod
           set == stacks[s].set
           way == stacks[s].way
           blk == cache[mod][set][way]
           reqs == InvalidateRequests(s, blk.tag, 0, 1)
           base == [stacks EXCEPT ![s].tag = blk.tag, ![s].state = blk.state,
                                  ![s].pending = 1 + Len(reqs)]
           sp == SpawnAll(base, Consume, reqs)
       IN  /\ dir' = [dir EXCEPT ![mod][set][way] =
                         [z \in ZRange(mod) |->
                             InvalidateEntry(mod, @[z], stacks[s].except_mod)]]
           /\ stacks' = sp.st
           /\ events' = esim_schedule_event(sp.b, "EV_MOD_INVALIDATE_FINISH", s, 0)
    /\ UNCHANGED <<cache, lru, dlock, counters, access, issued, aborted>>

InvalidateFinish ==
    /\ Ready("EV_MOD_INVALIDATE_FINISH")
    /\ UNCHANGED <<svars, cvars>>
    /\ LET s == e.st
       IN  IF stacks[s].pending <= 0
           THEN Abort("invalidate_finish: assert(pending > 0)")
           ELSE IF stacks[s].pending > 1
           THEN /\ stacks' = [stacks EXCEPT ![s].pending = @ - 1]
                /\ events' = Consume
                /\ UNCHANGED <<cache, lru, dir, dlock, counters, access, issued, aborted>>
           ELSE /\ events' = ReturnEvents(Consume, s)
                /\ stacks' = [stacks EXCEPT ![s] = FreeStack]
                /\ UNCHANGED <<cache, lru, dir, dlock, counters, access, issued, aborted>>

(***************************************************************************)
(* The event kernel dispatches any scheduled event                         *)
(***************************************************************************)
\* the clock advances by one cycle when no event is left in this cycle
Tick ==
    /\ aborted = ""
    /\ UNCHANGED <<svars, cvars>>
    /\ events # <<>>
    /\ Head(events).delay > 0
    /\ events' = [i \in 1 .. Len(events) |->
                     [events[i] EXCEPT !.delay = @ - 1]]
    /\ UNCHANGED <<cache, lru, dir, dlock, stacks, counters, access, issued, aborted>>

Next ==
    \/ \E m \in L1s, kind \in {"load", "store"}, addr \in Addrs : Issue(m, kind, addr)
    \/ Load \/ LoadLock \/ LoadAction \/ LoadMiss \/ LoadFinish
    \/ Store \/ StoreLock \/ StoreAction \/ StoreFinish
    \/ FindAndLock \/ FindAndLockAction \/ FindAndLockFinish
    \/ Evict \/ EvictInvalid \/ EvictAction \/ EvictReceive
    \/ EvictWriteback \/ EvictWritebackExclusive \/ EvictWritebackFinish
    \/ EvictProcess \/ EvictReply \/ EvictReplyReceive \/ EvictFinish
    \/ ReadRequest \/ ReadRequestReceive \/ ReadRequestAction
    \/ ReadRequestUpdown \/ ReadRequestUpdownMiss
    \/ ReadRequestUpdownFinish \/ ReadRequestDownup
    \/ ReadRequestDownupFinish \/ ReadRequestReply \/ ReadRequestFinish
    \/ WriteRequest \/ WriteRequestReceive \/ WriteRequestAction
    \/ WriteRequestExclusive \/ WriteRequestUpdown
    \/ WriteRequestUpdownFinish \/ WriteRequestDownup
    \/ WriteRequestReply \/ WriteRequestFinish
    \/ Invalidate \/ InvalidateFinish
    \/ Tick

Spec == Init /\ [][Next]_vars

(***************************************************************************)
(* Properties of the MOESI protocol                                        *)
(***************************************************************************)
Blocks ==
    UNION {{<<m, set, way>> : set \in Sets(m), way \in Ways(m)} : m \in Mods}

BlockOf(b) == cache[b[1]][b[2]][b[3]]
LockOf(b) == dlock[b[1]][b[2]][b[3]]

\* the state in which module m holds the line with the given tag
HeldState(c, m, tag) ==
    LET ws == {w \in Ways(m) : /\ c[m][SetOf(m, tag)][w].tag = tag
                               /\ c[m][SetOf(m, tag)][w].state # "I"}
    IN  IF ws = {} THEN "I" ELSE c[m][SetOf(m, tag)][FirstWay(ws)].state

\* the step that dispatches event ev
Fired(ev) == Ready(ev) /\ issued' = issued /\ events' # events

\* the block that the access of frame s has found and locked
FrameBlock(s) == <<stacks[s].mod, stacks[s].set, stacks[s].way>>

Scheduled(q, ev, s) == \E i \in 1 .. Len(q) : q[i].ev = ev /\ q[i].st = s

\* the ways of the module below m that hold the block containing tag
LowWays(m, tag) ==
    LET low == LowMod(m)
        ltag == Tag(low, tag)
    IN  {w \in Ways(low) : /\ cache[low][SetOf(low, ltag)][w].tag = ltag
                           /\ cache[low][SetOf(low, ltag)][w].state # "I"}

\* the directory of the module below m records m as the only owner of every
\* sub-block of m's block with the given tag
OwnedBelow(m, tag) ==
    LET low == LowMod(m)
        ltag == Tag(low, tag)
        lset == SetOf(low, ltag)
    IN  /\ LowWays(m, tag) # {}
        /\ \A w \in LowWays(m, tag) :
              \A z \in SubBlocksIn(low, ltag, tag, BlockSize(m)) :
                  dir[low][lset][w][z].owner = NodeIndex(m)

OwnerStates == {"M", "E", "O"}

LockedBelow(m, tag) ==
    LET low == LowMod(m)
        ltag == Tag(low, tag)
        lset == SetOf(low, ltag)
    IN  \E w \in Ways(low) :
            /\ dlock[low][lset][w].lock
            /\ \/ cache[low][lset][w].tag = ltag
               \/ cache[low][lset][w].transient_tag = ltag

OneHolder(dl) ==
    \A b \in Blocks :
        /\ Cardinality(dl[b[1]][b[2]][b[3]].holders) <= 1
        /\ dl[b[1]][b[2]][b[3]].lock <=> dl[b[1]][b[2]][b[3]].holders # {}

\* C3: a directory lock is held by at most one in-flight access, and a
\* find-and-lock goes on to its action only on a lock that was free, of
\* which it is then the holder until the matching unlock.
LockExclusive ==
    [][/\ OneHolder(dlock')
       /\ \A s \in StackIds :
             (/\ Scheduled(events', "EV_MOD_FIND_AND_LOCK_ACTION", s)
              /\ ~Scheduled(events, "EV_MOD_FIND_AND_LOCK_ACTION", s))
                => LET b == FrameBlock(s)'
                   IN  /\ ~LockOf(b).lock
                       /\ dlock'[b[1]][b[2]][b[3]].holders = {stacks'[s].id}]_vars

\* an access holds a lock on which the find-and-lock of another waits
LockExclusiveWitness ==
    \E b \in Blocks :
        /\ LockOf(b).lock
        /\ LockOf(b).queue # <<>>
        /\ \A i \in 1 .. Len(LockOf(b).queue) :
              stacks[LockOf(b).queue[i]].id \notin LockOf(b).holders

\* C10: an invalid block has no sharer and no owner in the directory of its
\* own module, and the three assertions stating this never fail.
InvalidNotShared ==
    /\ \A b \in Blocks :
          BlockOf(b).state = "I"
              => ~dir_entry_group_shared_or_owned(dir, b[1], b[2], b[3])
    /\ aborted \notin {"find_and_lock: assert(state || !shared_or_owned)",
                       "evict: assert(state || !shared_or_owned)",
                       "read_request_updown: assert(!shared_or_owned)"}

\* C4: an evict of a modified or owned victim that returns without error
\* leaves the victim invalid in the evicting cache and the same block
\* modified in the module directly below.
EvictWritesBack ==
    [][(/\ Fired("EV_MOD_EVICT_FINISH")
        /\ stacks[e.st].writeback
        /\ ~stacks[e.st].err)
       => LET s == e.st
              mod == stacks[s].mod
              low == LowMod(mod)
              ltag == Tag(low, stacks[s].src_tag)
          IN  /\ cache'[mod][stacks[s].src_set][stacks[s].src_way].state = "I"
              /\ \E w \in Ways(low) :
                    /\ cache'[low][SetOf(low, ltag)][w].tag = ltag
                    /\ cache'[low][SetOf(low, ltag)][w].state = "M"]_vars

\* an evict that wrote its victim back is about to return without error
EvictWritesBackWitness ==
    /\ Ready("EV_MOD_EVICT_FINISH")
    /\ stacks[e.st].writeback
    /\ ~stacks[e.st].err
    /\ cache[stacks[e.st].mod][stacks[e.st].src_set][stacks[e.st].src_way].state = "I"
    /\ HeldState(cache, LowMod(stacks[e.st].mod),
                 Tag(LowMod(stacks[e.st].mod), stacks[e.st].src_tag)) = "M"

\* C5: a store that returns leaves its block modified and unlocked; it has
\* sent no write request when find-and-lock returned M or E, and exactly
\* one, which succeeded, when find-and-lock returned O, S or I.
StoreReturnsModified ==
    [][(Fired("EV_MOD_STORE_FINISH") /\ ~stacks[e.st].err)
       => LET s == e.st
              b == FrameBlock(s)
          IN  /\ ~stacks'[s].used
              /\ stacks[s].dir_lock = b
              /\ dlock[b[1]][b[2]][b[3]].lock
              /\ ~dlock'[b[1]][b[2]][b[3]].lock
              /\ cache'[b[1]][b[2]][b[3]].state = "M"
              /\ cache'[b[1]][b[2]][b[3]].tag = Tag(b[1], stacks[s].addr)
              /\ stacks[s].state \in {"M", "E"} => stacks[s].reqs = 0
              /\ stacks[s].state \in {"O", "S", "I"} => stacks[s].reqs = 1]_vars

\* a store that missed returns after its one write request
StoreReturnsModifiedWitness ==
    /\ Ready("EV_MOD_STORE_FINISH")
    /\ ~stacks[e.st].err
    /\ stacks[e.st].state = "I"
    /\ stacks[e.st].reqs = 1
    /\ LockOf(FrameBlock(e.st)).lock

\* C6: a load whose find-and-lock returned I installs, once its read
\* request has returned without error, the requested tag in state S when
\* the shared flag is set and E otherwise, and then releases the lock; a
\* load whose find-and-lock returned a valid state finishes without a read
\* request and with the block state unchanged.
LoadInstalls ==
    [][/\ (Fired("EV_MOD_LOAD_MISS") /\ ~stacks[e.st].err)
          => LET s == e.st
                 b == FrameBlock(s)
             IN  /\ stacks[s].state = "I"
                 /\ stacks[s].reqs = 1
                 /\ cache'[b[1]][b[2]][b[3]].tag = Tag(b[1], stacks[s].addr)
                 /\ cache'[b[1]][b[2]][b[3]].state =
                        IF stacks[s].shared THEN "S" ELSE "E"
                 /\ \E i \in 1 .. Len(events') :
                       events'[i] = Ev("EV_MOD_LOAD_FINISH", s, 0)
                 /\ dlock'[b[1]][b[2]][b[3]].lock
       /\ Fired("EV_MOD_LOAD_FINISH")
          => LET s == e.st
                 b == FrameBlock(s)
             IN  /\ stacks[s].dir_lock = b
                 /\ dlock[b[1]][b[2]][b[3]].lock
                 /\ ~dlock'[b[1]][b[2]][b[3]].lock
                 /\ stacks[s].state = "I" => stacks[s].reqs = 1
                 /\ stacks[s].state # "I"
                       => /\ stacks[s].reqs = 0
                          /\ cache'[b[1]][b[2]][b[3]].state = stacks[s].state
                          /\ cache'[b[1]][b[2]][b[3]].tag = Tag(b[1], stacks[s].addr)]_vars

\* a load that missed has installed a shared block and is about to finish
LoadInstallsWitness ==
    /\ Ready("EV_MOD_LOAD_FINISH")
    /\ stacks[e.st].state = "I"
    /\ stacks[e.st].shared
    /\ BlockOf(FrameBlock(e.st)).state = "S"
    /\ BlockOf(FrameBlock(e.st)).tag = Tag(stacks[e.st].mod, stacks[e.st].addr)

\* the block on which the find-and-lock of frame s is about to work
TargetBlock(s) ==
    LET mod == stacks[s].mod
        fb == mod_find_block(cache, dlock, mod, stacks[s].addr)
    IN  <<mod, fb.set,
          IF fb.hit THEN fb.way ELSE cache_replace_block(lru, mod, fb.set)>>

L2Entries(c, d, tag) ==
    LET ltag == Tag("l2", tag)
        lset == SetOf("l2", ltag)
    IN  {d["l2"][lset][w][z] :
            w \in {v \in Ways("l2") : c["l2"][lset][v].tag = ltag
                                      /\ c["l2"][lset][v].state # "I"},
            z \in SubBlocksIn("l2", ltag, tag, BlockSize("l1a"))}

\* C8: with the line invalid everywhere, when the store of one processor
\* completes its L1 holds the line in M and the L2 directory names it owner;
\* when the load that the other processor issues afterwards completes, the
\* first L1 holds the line in O or S, the second in S, and the L2 directory
\* records exactly the two of them as sharers.
StoreThenLoad ==
    [][/\ (Fired("EV_MOD_STORE_FINISH") /\ ~stacks[e.st].err /\ issued = 1)
          => LET s == e.st
                 tag == Tag(stacks[s].mod, stacks[s].addr)
             IN  /\ HeldState(cache', stacks[s].mod, tag) = "M"
                 /\ L2Entries(cache', dir', tag) # {}
                 /\ \A x \in L2Entries(cache', dir', tag) :
                       x.owner = NodeIndex(stacks[s].mod)
       /\ (Fired("EV_MOD_LOAD_FINISH") /\ stacks[e.st].prior = "M" /\ issued = 2)
          => LET s == e.st
                 mod == stacks[s].mod
                 tag == Tag(mod, stacks[s].addr)
             IN  /\ HeldState(cache', mod, tag) = "S"
                 /\ \A p \in L1s \ {mod} : HeldState(cache', p, tag) \in {"O", "S"}
                 /\ L2Entries(cache', dir', tag) # {}
                 /\ \A x \in L2Entries(cache', dir', tag) :
                       x.sharers = {NodeIndex(p) : p \in L1s}]_vars

\* the load issued after the store of the other processor is about to
\* finish with both L1 caches sharing the line
StoreThenLoadWitness ==
    /\ Ready("EV_MOD_LOAD_FINISH")
    /\ stacks[e.st].prior = "M"
    /\ issued = 2
    /\ \A m \in L1s :
          HeldState(cache, m, Tag(m, stacks[e.st].addr)) = "S"
    /\ \A x \in L2Entries(cache, dir, Tag("l1a", stacks[e.st].addr)) :
          x.sharers = {NodeIndex(m) : m \in L1s}

RetryEvents == {"EV_MOD_LOAD_ACTION", "EV_MOD_LOAD_MISS",
                "EV_MOD_STORE_ACTION", "EV_MOD_STORE_FINISH"}

\* C9: a load or store whose find-and-lock or request returned err is
\* scheduled again after a delay d with latency <= d < 2 * latency, with
\* its retry flag set, its lock released and the retry counter of its kind
\* one higher; no top-level access returns with err set.
RetryOnError ==
    [][/\ \A ev \in RetryEvents :
             (Fired(ev) /\ stacks[e.st].err)
                => LET s == e.st
                       mod == stacks[s].mod
                       load == ev \in {"EV_MOD_LOAD_ACTION", "EV_MOD_LOAD_MISS"}
                       again == IF load THEN "EV_MOD_LOAD_LOCK" ELSE "EV_MOD_STORE"
                   IN  /\ stacks'[s].used
                       /\ stacks'[s].retry
                       /\ counters' = [counters EXCEPT
                              ![mod].read_retries = IF load THEN @ + 1 ELSE @,
                              ![mod].write_retries = IF load THEN @ ELSE @ + 1]
                       /\ \E i \in 1 .. Len(events') :
                             /\ events'[i].st = s
                             /\ events'[i].ev = again
                             /\ Latency(mod) <= events'[i].delay
                             /\ events'[i].delay < 2 * Latency(mod)
                             /\ \A j \in 1 .. Len(events') :
                                   events'[j].st = s => j = i
                       /\ \A b \in Blocks :
                             b[1] = mod => stacks[s].id \notin
                                              dlock'[b[1]][b[2]][b[3]].holders
                       /\ ev \in {"EV_MOD_LOAD_MISS", "EV_MOD_STORE_FINISH"}
                             => /\ LockOf(stacks[s].dir_lock).lock
                                /\ ~dlock'[mod][stacks[s].set][stacks[s].way].lock
       /\ \A s \in StackIds :
             (TopLevel(s) /\ ~stacks'[s].used) => ~stacks[s].err]_vars

\* a load waits for its retry with the longest delay, its lock released
RetryOnErrorWitness ==
    \E s \in StackIds : \E i \in 1 .. Len(events) :
        /\ TopLevel(s)
        /\ stacks[s].retry
        /\ events[i] = Ev("EV_MOD_LOAD_LOCK", s, 2 * Latency(stacks[s].mod) - 1)
        /\ counters[stacks[s].mod].read_retries = 1
        /\ \A b \in Blocks : stacks[s].id \notin LockOf(b).holders

\* the L2 has invalidated the victim that one of the L1 caches shared
InvalidNotSharedWitness ==
    /\ Ready("EV_MOD_EVICT_FINISH")
    /\ stacks[e.st].mod = "l2"
    /\ ~stacks[e.st].err
    /\ BlockOf(<<"l2", stacks[e.st].src_set, stacks[e.st].src_way>>).state = "I"
    /\ ~dir_entry_group_shared_or_owned(dir, "l2", stacks[e.st].src_set,
                                        stacks[e.st].src_way)

\* the directory entries of block b in the directory of its own module
OwnEntries(b) == {dir[b[1]][b[2]][b[3]][z] : z \in ZRange(b[1])}

\* the directory of the module below m records m as a sharer, and not as
\* the owner, of every sub-block of m's block with the given tag
SharedBelow(m, tag) ==
    LET low == LowMod(m)
        ltag == Tag(low, tag)
        lset == SetOf(low, ltag)
    IN  /\ LowWays(m, tag) # {}
        /\ \A w \in LowWays(m, tag) :
              \A z \in SubBlocksIn(low, ltag, tag, BlockSize(m)) :
                  /\ NodeIndex(m) \in dir[low][lset][w][z].sharers
                  /\ dir[low][lset][w][z].owner # NodeIndex(m)

getState(c, p, bit) == bit \in c[p].state

\* Context::UpdateState: a finished or zombie context keeps no other bit;
\* a context is running exactly when it is neither suspended, zombie nor
\* finished
UpdateState(c, p, st) ==
    LET s1 == IF "finished" \in st THEN {"finished"}
              ELSE IF "zombie" \in st THEN {"zombie"}
              ELSE st \ {"running"}
    IN  [c EXCEPT ![p].state =
            IF s1 \cap {"suspended", "zombie", "finished"} = {}
            THEN s1 \cup {"running"} ELSE s1]

\* Context::setState, Context::clearState
setState(c, p, bit) == UpdateState(c, p, c[p].state \cup {bit})
clearState(c, p, bits) == UpdateState(c, p, c[p].state \ bits)

\* Context::Finish: the context becomes a zombie holding its exit code
Finish(c, p, status) == [setState(c, p, "zombie") EXCEPT ![p].exit_code = status]

\* Context::getZombie: a zombie child of p with the given pid, any for -1
Zombies(c, p, pid) ==
    {q \in Pids : /\ getState(c, q, "zombie")
                  /\ c[q].parent = p
                  /\ (q = pid \/ pid = -1)}

getZombie(c, p, pid) ==
    IF Zombies(c, p, pid) = {} THEN NoPid
    ELSE CHOOSE q \in Zombies(c, p, pid) : \A o \in Zombies(c, p, pid) : q <= o

\* Emu::incFutexSleepCount
incFutexSleepCount(n) == n + 1

\* contexts suspended in the futex whose bitset meets the given one
FutexWaiters(c, futex, bitset) ==
    {p \in Pids : /\ getState(c, p, "suspended")
                  /\ getState(c, p, "futex")
                  /\ c[p].wakeup_futex = futex
                  /\ BitAnd(c[p].wakeup_futex_bitset, bitset) # 0}

\* the waiter that went to sleep first
FirstSleeper(c, ws) ==
    CHOOSE p \in ws :
        \A q \in ws : c[p].wakeup_futex_sleep <= c[q].wakeup_futex_sleep

\* Context::FutexWake: wake up to count waiters, lowest sleep epoch first;
\* a woken context resumes with 0 in eax
RECURSIVE FutexWake(_, _, _, _)
FutexWake(c, futex, count, bitset) ==
    LET ws == FutexWaiters(c, futex, bitset)
    IN  IF count = 0 \/ ws = {} THEN [ctx |-> c, woken |-> 0]
        ELSE LET w == FirstSleeper(c, ws)
                 r == FutexWake(
                          [clearState(c, w, {"suspended", "futex"})
                              EXCEPT ![w].eax = 0],
                          futex, count - 1, bitset)
             IN  [ctx |-> r.ctx, woken |-> r.woken + 1]

\* mem::Memory pages of [addr, addr + size)
PagesIn(addr, size) ==
    {a \in {k * MemoryPageSize : k \in 0 .. 15} : a >= addr /\ a < addr + size}

\* Memory::MapSpace: the lowest free range of the size at or above addr
MapSpace(pg, addr, size) ==
    LET fits == {a \in {k * MemoryPageSize : k \in 0 .. 15} :
                    a >= addr /\ PagesIn(a, size) \cap pg = {}}
    IN  IF fits = {} THEN 0
        ELSE CHOOSE a \in fits : \A b \in fits : a <= b

\* Memory::Map, Memory::Unmap
Map(pg, addr, size) == pg \cup PagesIn(addr, size)
Unmap(pg, addr, size) == pg \ PagesIn(addr, size)

(***************************************************************************)
(* Context::ExecuteSyscall                                                 *)
(***************************************************************************)
\* codes of syscall.dat
SyscallCode(name) ==
    CASE name = "exit" -> 1
      [] name = "read" -> 3
      [] name = "write" -> 4
      [] name = "waitpid" -> 7
      [] name = "brk" -> 45
      [] name = "sigreturn" -> 119
      [] name = "clone" -> 120
      [] name = "nanosleep" -> 162
      [] name = "futex" -> 240

\* the memory image of context p
CallerImage(p) ==
    IF ctx[p].mem = 0
    THEN [memory |-> memory, heap_break |-> heap_break, pages |-> pages]
    ELSE images[ctx[p].mem]

\* the state a handler of context p starts from: eax holds the code; a
\* handler yields the state it leaves, its return value and, when it ends
\* the run, the message of the fatal error
Entry(p, name) ==
    [ctx |-> [ctx EXCEPT ![p].eax = SyscallCode(name)],
     memory |-> CallerImage(p).memory,
     heap_break |-> CallerImage(p).heap_break,
     pages |-> CallerImage(p).pages,
     images |-> images,
     futex_sleep_count |-> futex_sleep_count, ret |-> 0, fatal |-> ""]

Fatal(w, message) == [w EXCEPT !.fatal = message]

\* a return register that holds the return value regardless of the state
SetEaxAlways(c, p, name, r) == [c EXCEPT ![p].eax = r]

\* the return value goes to eax, except for sigreturn and for a context
\* that got suspended
SetEax(c, p, name, r) ==
    IF name # "sigreturn" /\ ~getState(c, p, "suspended")
    THEN [c EXCEPT ![p].eax = r]
    ELSE c

CanExecute(p) ==
    /\ fatal = ""
    /\ ncalls < MaxCalls
    /\ getState(ctx, p, "running")

ExecuteSyscall(p, name, w) ==
    /\ ncalls' = ncalls + 1
    /\ IF w.fatal # ""
       THEN /\ fatal' = w.fatal
            /\ UNCHANGED <<ctx, memory, heap_break, pages, images,
                           futex_sleep_count, returned>>
       ELSE /\ ctx' = SetEax(w.ctx, p, name, w.ret)
            /\ memory' = IF ctx[p].mem = 0 THEN w.memory ELSE memory
            /\ heap_break' = IF ctx[p].mem = 0 THEN w.heap_break ELSE heap_break
            /\ pages' = IF ctx[p].mem = 0 THEN w.pages ELSE pages
            /\ images' = IF ctx[p].mem = 0 THEN w.images
                         ELSE [w.images EXCEPT ![ctx[p].mem] =
                                  [memory |-> w.memory,
                                   heap_break |-> w.heap_break,
                                   pages |-> w.pages]]
            /\ futex_sleep_count' = w.futex_sleep_count
            /\ returned' = [pid |-> p, code |-> name, ret |-> w.ret]
            /\ fatal' = ""
    /\ UNCHANGED <<now, mvars, cvars>>

(***************************************************************************)
(* System call handlers                                                    *)
(***************************************************************************)
\* a suspension that sets no cause bit
SuspendNoCause(c, p, cause) == setState(c, p, "suspended")

\* the context records its wake-up data, then gets suspended for the cause
Suspend(c, p, cause) == setState(setState(c, p, "suspended"), p, cause)

\* Context::ExecuteSyscall_exit
ExecuteSyscall_exit(w, p, status) ==
    [w EXCEPT !.ctx = Finish(w.ctx, p, status), !.ret = 0]

\* what the host answers for a descriptor: whether the guest descriptor is
\* open, whether poll reports it ready, whether it is O_NONBLOCK, and the
\* value the host read or write yields (bytes moved or -errno)
HostAnswers ==
    {[open |-> FALSE, revents |-> FALSE, nonblock |-> FALSE, err |-> 0],
     [open |-> TRUE, revents |-> TRUE, nonblock |-> FALSE, err |-> 8],
     [open |-> TRUE, revents |-> FALSE, nonblock |-> TRUE, err |-> -SIM_EAGAIN],
     [open |-> TRUE, revents |-> FALSE, nonblock |-> FALSE, err |-> 0]}

\* Context::ExecuteSyscall_read
ExecuteSyscall_read(w, p, guest_fd, h) ==
    IF ~h.open THEN [w EXCEPT !.ret = -SIM_EBADF]
    ELSE IF h.revents \/ h.nonblock THEN [w EXCEPT !.ret = h.err]
    ELSE [w EXCEPT !.ctx = Suspend([w.ctx EXCEPT ![p].wakeup_fd = guest_fd,
                                                 ![p].wakeup_events = 1],
                                   p, "read"),
                   !.ret = 0]

\* Context::ExecuteSyscall_write
ExecuteSyscall_write(w, p, guest_fd, h) ==
    IF ~h.open THEN [w EXCEPT !.ret = -SIM_EBADF]
    ELSE IF h.revents THEN [w EXCEPT !.ret = h.err]
    ELSE [w EXCEPT !.ctx = Suspend([w.ctx EXCEPT ![p].wakeup_fd = guest_fd],
                                   p, "write"),
                   !.ret = 0]

\* memory->Write of a word; a null pointer is never written
WriteWord(mem, addr, value) ==
    IF addr \in DOMAIN mem THEN [mem EXCEPT ![addr] = value] ELSE mem

\* a reaped child that stays a zombie
ReapedStateKept(c, child) == c

\* the reaped child: child->setState(ContextFinished)
ReapedState(c, child) == setState(c, child, "finished")

\* a status that is never stored
WriteStatusNever(mem, status_ptr, exit_code) == mem

\* the exit code of the child goes to status_ptr unless it is null
WriteStatus(mem, status_ptr, exit_code) ==
    IF status_ptr # 0 THEN WriteWord(mem, status_ptr, exit_code) ELSE mem

\* Context::ExecuteSyscall_waitpid
ExecuteSyscall_waitpid(w, p, pid, status_ptr, options) ==
    LET c == [w.ctx EXCEPT ![p].ecx = status_ptr]
        child == getZombie(c, p, pid)
    IN  IF pid # -1 /\ pid <= 0
        THEN Fatal(w, "waitpid: only supported for pid=-1 or pid > 0")
        ELSE IF child = NoPid /\ options % 2 = 0
        THEN [w EXCEPT !.ctx = Suspend([c EXCEPT ![p].wakeup_pid = pid],
                                       p, "waitpid"),
                       !.ret = 0]
        ELSE IF child # NoPid
        THEN [w EXCEPT !.memory = WriteStatus(w.memory, status_ptr,
                                              c[child].exit_code),
                       !.ctx = ReapedState(c, child),
                       !.ret = child]
        ELSE [w EXCEPT !.ctx = c, !.ret = 0]

\* a sleep time rounded up to the next microsecond
SleepMicrosecondsUp(sec, nsec) == sec * 1000000 + ((nsec + 999) \div 1000)

\* the sleep time in microseconds: (long long) sec * 1000000 + nsec / 1000
SleepMicroseconds(sec, nsec) == sec * 1000000 + (nsec \div 1000)

\* Context::ExecuteSyscall_nanosleep: sec and nsec are the words at rqtp
ExecuteSyscall_nanosleep(w, p, sec, nsec) ==
    LET total == SleepMicroseconds(sec, nsec)
    IN  [w EXCEPT !.ctx = Suspend([w.ctx EXCEPT ![p].wakeup_time = now + total],
                                  p, "nanosleep"),
                  !.ret = 0]

\* Context::ExecuteSyscall_sigreturn
ExecuteSyscall_sigreturn(w, p) ==
    Fatal(w, "sigreturn: unimplemented system call")

\* Context::ExecuteSyscall_brk
ExecuteSyscall_brk(w, p, new_heap_break) ==
    LET old_heap_break == w.heap_break
        new_heap_break_aligned == RoundUp(new_heap_break, MemoryPageSize)
        old_heap_break_aligned == RoundUp(old_heap_break, MemoryPageSize)
        grow == Add32(new_heap_break_aligned, -old_heap_break_aligned)
        shrink == Add32(old_heap_break_aligned, -new_heap_break_aligned)
    IN  IF new_heap_break = 0 THEN [w EXCEPT !.ret = old_heap_break]
        ELSE IF UnsignedLess(old_heap_break, new_heap_break)
        THEN IF grow # 0 /\ MapSpace(w.pages, old_heap_break_aligned, grow)
                                # old_heap_break_aligned
             THEN Fatal(w, "brk: out of memory")
             ELSE [w EXCEPT !.pages = IF grow # 0
                                      THEN Map(@, old_heap_break_aligned, grow)
                                      ELSE @,
                            !.heap_break = new_heap_break,
                            !.ret = new_heap_break]
        ELSE IF UnsignedLess(new_heap_break, old_heap_break)
        THEN [w EXCEPT !.pages = IF shrink # 0
                                 THEN Unmap(@, new_heap_break_aligned, shrink)
                                 ELSE @,
                       !.heap_break = new_heap_break,
                       !.ret = new_heap_break]
        ELSE [w EXCEPT !.ret = 0]

\* 'cmd' is 'op' without FUTEX_PRIVATE_FLAG (128) and FUTEX_CLOCK_REALTIME (256)
FutexCmd(op) == op - 128 * ((op \div 128) % 2) - 256 * ((op \div 256) % 2)

\* a wait that never finds the futex changed
WaitMismatchNever(futex, val1) == FALSE

\* futex != (unsigned) val1
WaitMismatch(futex, val1) == futex # val1

\* if (timeout_ptr): the wait was given a timeout
WaitTimeout(timeout_ptr) == timeout_ptr # 0

\* a wake that takes every waiter of the futex, whatever the bitset
WakeBitsetAll(cmd, val3) == AllOnes

\* bitset = cmd == 10 ? val3 : 0xffffffff
WakeBitset(cmd, val3) == IF cmd = 10 THEN val3 ELSE AllOnes

\* a requeue that moves nobody
RequeueNone(c, addr1, addr2) == c

\* the contexts still suspended in the futex at addr1 wait at addr2
Requeue(c, addr1, addr2) ==
    [q \in Pids |->
        IF /\ getState(c, q, "suspended")
           /\ getState(c, q, "futex")
           /\ c[q].wakeup_futex = addr1
        THEN [c[q] EXCEPT !.wakeup_futex = addr2]
        ELSE c[q]]

\* the fields of val3 for FUTEX_WAKE_OP
WakeOpFields(val3) ==
    [op |-> (val3 \div 2 ^ 28) % 16,
     cmp |-> (val3 \div 2 ^ 24) % 16,
     oparg |-> (val3 \div 2 ^ 12) % 4096,
     cmparg |-> val3 % 4096]

\* an operation that always stores the argument
FutexOpSet(op, oldval, oparg) == oparg

\* newval of FUTEX_WAKE_OP, as an int
FutexOp(op, oldval, oparg) ==
    CASE op = 0 -> oparg
      [] op = 1 -> Add32(oldval, oparg)
      [] op = 2 -> BitOr(oldval, oparg)
      [] op = 3 -> BitAnd(oldval, oparg)
      [] op = 4 -> BitXor(oldval, oparg)

\* cond of FUTEX_WAKE_OP
FutexCmp(cmp, oldval, cmparg) ==
    CASE cmp = 0 -> oldval = cmparg
      [] cmp = 1 -> oldval # cmparg
      [] cmp = 2 -> oldval < cmparg
      [] cmp = 3 -> oldval <= cmparg
      [] cmp = 4 -> oldval > cmparg
      [] cmp = 5 -> oldval >= cmparg

\* Context::ExecuteSyscall_futex
ExecuteSyscall_futex(w, p, addr1, op, val1, timeout_ptr, addr2, val3) ==
    LET cmd == FutexCmd(op)
        futex == w.memory[addr1]
    IN  IF cmd \in {0, 9}
        THEN IF WaitMismatch(futex, val1) THEN [w EXCEPT !.ret = -SIM_EAGAIN]
             ELSE IF WaitTimeout(timeout_ptr)
             THEN Fatal(w, "syscall futex: FUTEX_WAIT not supported with timeout")
             ELSE LET sleep == incFutexSleepCount(w.futex_sleep_count)
                  IN  [w EXCEPT
                        !.futex_sleep_count = sleep,
                        !.ctx = Suspend(
                            [w.ctx EXCEPT
                                ![p].wakeup_futex = addr1,
                                ![p].wakeup_futex_bitset =
                                    IF cmd = 9 THEN val3 ELSE AllOnes,
                                ![p].wakeup_futex_sleep = sleep],
                            p, "futex"),
                        !.ret = 0]
        ELSE IF cmd \in {1, 10}
        THEN LET r == FutexWake(w.ctx, addr1, val1, WakeBitset(cmd, val3))
             IN  [w EXCEPT !.ctx = r.ctx, !.ret = r.woken]
        ELSE IF cmd = 4
        THEN IF timeout_ptr # IntMax
             THEN Fatal(w, "futex: FUTEX_CMP_REQUEUE: only supported for ptimeout=INTMAX")
             ELSE IF futex # val3 THEN [w EXCEPT !.ret = -SIM_EAGAIN]
             ELSE LET r == FutexWake(w.ctx, addr1, val1, AllOnes)
                  IN  [w EXCEPT !.ctx = Requeue(r.ctx, addr1, addr2),
                                !.ret = r.woken]
        ELSE IF cmd = 5
        THEN LET f == WakeOpFields(val3)
                 val2 == timeout_ptr
                 oldval == w.memory[addr2]
             IN  IF f.op > 4
                 THEN Fatal(w, "futex: FUTEX_WAKE_OP: invalid operation")
                 ELSE IF f.cmp > 5
                 THEN Fatal(w, "futex: FUTEX_WAKE_OP: invalid condition")
                 ELSE LET newval == FutexOp(f.op, oldval, f.oparg)
                          r1 == FutexWake(w.ctx, addr1, val1, AllOnes)
                          r2 == IF FutexCmp(f.cmp, oldval, f.cmparg)
                                THEN FutexWake(r1.ctx, addr2, val2, AllOnes)
                                ELSE [ctx |-> r1.ctx, woken |-> 0]
                      IN  [w EXCEPT !.memory = WriteWord(@, addr2, newval),
                                    !.ctx = r2.ctx,
                                    !.ret = r1.woken + r2.woken]
        ELSE Fatal(w, "futex: not implemented for cmd")

(***************************************************************************)
(* The guest executes system calls; the emulator wakes suspended contexts  *)
(***************************************************************************)
\* a futex call: the registers ebx, ecx, edx, esi, edi and ebp
FutexCall(addr1, op, val1, timeout_ptr, addr2, val3) ==
    [addr1 |-> addr1, op |-> op, val1 |-> val1, timeout_ptr |-> timeout_ptr,
     addr2 |-> addr2, val3 |-> val3]

SysExit(p, status) ==
    /\ CanExecute(p)
    /\ ExecuteSyscall(p, "exit", ExecuteSyscall_exit(Entry(p, "exit"), p, status))

SysRead(p, guest_fd, h) ==
    /\ CanExecute(p)
    /\ ExecuteSyscall(p, "read",
                      ExecuteSyscall_read(Entry(p, "read"), p, guest_fd, h))

SysWrite(p, guest_fd, h) ==
    /\ CanExecute(p)
    /\ ExecuteSyscall(p, "write",
                      ExecuteSyscall_write(Entry(p, "write"), p, guest_fd, h))

SysWaitpid(p, pid, status_ptr, options) ==
    /\ CanExecute(p)
    /\ ExecuteSyscall(p, "waitpid",
                      ExecuteSyscall_waitpid(Entry(p, "waitpid"), p, pid,
                                             status_ptr, options))

SysNanosleep(p, sec, nsec) ==
    /\ CanExecute(p)
    /\ ExecuteSyscall(p, "nanosleep",
                      ExecuteSyscall_nanosleep(Entry(p, "nanosleep"), p, sec, nsec))

SysSigreturn(p) ==
    /\ CanExecute(p)
    /\ ExecuteSyscall(p, "sigreturn",
                      ExecuteSyscall_sigreturn(Entry(p, "sigreturn"), p))

SysBrk(p, new_heap_break) ==
    /\ CanExecute(p)
    /\ ExecuteSyscall(p, "brk",
                      ExecuteSyscall_brk(Entry(p, "brk"), p, new_heap_break))

SysFutex(p, a) ==
    /\ CanExecute(p)
    /\ ExecuteSyscall(p, "futex",
                      ExecuteSyscall_futex(Entry(p, "futex"), p, a.addr1, a.op,
                                           a.val1, a.timeout_ptr, a.addr2,
                                           a.val3))

\* the emulator finds the descriptor of a suspended read or write ready,
\* performs the deferred call and sets its result in eax
WakeupIO(p, cause, n) ==
    /\ fatal = ""
    /\ getState(ctx, p, "suspended") /\ getState(ctx, p, cause)
    /\ ctx' = [clearState(ctx, p, {"suspended", cause}) EXCEPT ![p].eax = n]
    /\ UNCHANGED <<memory, heap_break, pages, images, futex_sleep_count, now,
                   returned, ncalls, fatal, mvars, cvars>>

\* the emulator finds the deadline of a suspended nanosleep reached
WakeupNanosleep(p) ==
    /\ fatal = ""
    /\ getState(ctx, p, "suspended") /\ getState(ctx, p, "nanosleep")
    /\ now >= ctx[p].wakeup_time
    /\ ctx' = [clearState(ctx, p, {"suspended", "nanosleep"}) EXCEPT ![p].eax = 0]
    /\ UNCHANGED <<memory, heap_break, pages, images, futex_sleep_count, now,
                   returned, ncalls, fatal, mvars, cvars>>

\* the emulator finds a zombie child for a suspended waitpid: it writes the
\* exit code, reaps the child and sets its pid in eax
WakeupWaitpid(p) ==
    /\ fatal = ""
    /\ getState(ctx, p, "suspended") /\ getState(ctx, p, "waitpid")
    /\ getZombie(ctx, p, ctx[p].wakeup_pid) # NoPid
    /\ LET child == getZombie(ctx, p, ctx[p].wakeup_pid)
           written == IF ctx[p].ecx # 0
                      THEN WriteWord(CallerImage(p).memory, ctx[p].ecx,
                                     ctx[child].exit_code)
                      ELSE CallerImage(p).memory
       IN  /\ memory' = IF ctx[p].mem = 0 THEN written ELSE memory
           /\ images' = IF ctx[p].mem = 0 THEN images
                        ELSE [images EXCEPT ![ctx[p].mem].memory = written]
           /\ ctx' = [clearState(setState(ctx, child, "finished"), p,
                                 {"suspended", "waitpid"})
                         EXCEPT ![p].eax = child]
    /\ UNCHANGED <<heap_break, pages, futex_sleep_count, now, returned,
                   ncalls, fatal, mvars, cvars>>

\* real time passes; a step is taken when a sleeping context waits for it
AdvanceTime ==
    /\ fatal = ""
    /\ now < MaxTime
    /\ \E p \in Pids : /\ getState(ctx, p, "nanosleep")
                       /\ now < ctx[p].wakeup_time
    /\ now' = now + 1
    /\ UNCHANGED <<ctx, memory, heap_break, pages, images, futex_sleep_count,
                   returned, ncalls, fatal, mvars, cvars>>

\* arguments the guest passes in a run that mixes the system calls
ExitCodes == {1}
GuestFds == {3}
WaitPids == {-1, 0, 101}
StatusPtrs == {0}
WaitOptions == {0, 1}
SleepTimes == {<<0, 1999>>}
SysFutexCalls == {FutexCall(64, 0, 0, 0, 0, 0), FutexCall(64, 1, 1, 0, 0, 0)}

SysNext ==
    \/ \E p \in Pids, status \in ExitCodes : SysExit(p, status)
    \/ \E p \in Pids, fd \in GuestFds, h \in HostAnswers : SysRead(p, fd, h)
    \/ \E p \in Pids, fd \in GuestFds, h \in HostAnswers : SysWrite(p, fd, h)
    \/ \E p \in Pids, pid \in WaitPids, ptr \in StatusPtrs, o \in WaitOptions :
           SysWaitpid(p, pid, ptr, o)
    \/ \E p \in Pids, t \in SleepTimes : SysNanosleep(p, t[1], t[2])
    \/ \E p \in Pids : SysSigreturn(p)
    \/ \E p \in Pids, a \in SysFutexCalls : SysFutex(p, a)
    \/ \E p \in Pids, cause \in {"read", "write"} : WakeupIO(p, cause, 8)
    \/ \E p \in Pids : WakeupNanosleep(p)
    \/ \E p \in Pids : WakeupWaitpid(p)
    \/ AdvanceTime

SysSpec == Init /\ [][SysNext]_vars

(***************************************************************************)
(* Properties of the context states                                        *)
(***************************************************************************)
\* the primary state of a context
Primary(p) == ctx[p].state \cap PrimaryBits

\* a step reaps q: q was a zombie and is one no longer
Reaped(q) == getState(ctx, q, "zombie") /\ ~getState(ctx', q, "zombie")

Causes(p) == ctx[p].state \cap CauseBits

\* a step suspends p
Suspends(p) == ~getState(ctx, p, "suspended") /\ getState(ctx', p, "suspended")

\* the call that suspends p has recorded the wake-up data of its cause
CauseRecorded(p) ==
    \/ \E fd \in GuestFds, h \in HostAnswers :
           /\ SysRead(p, fd, h)
           /\ getState(ctx', p, "read")
           /\ ctx'[p].wakeup_fd = fd
    \/ \E fd \in GuestFds, h \in HostAnswers :
           /\ SysWrite(p, fd, h)
           /\ getState(ctx', p, "write")
           /\ ctx'[p].wakeup_fd = fd
    \/ \E pid \in WaitPids, ptr \in StatusPtrs, o \in WaitOptions :
           /\ SysWaitpid(p, pid, ptr, o)
           /\ getState(ctx', p, "waitpid")
           /\ ctx'[p].wakeup_pid = pid
    \/ \E t \in SleepTimes :
           /\ SysNanosleep(p, t[1], t[2])
           /\ getState(ctx', p, "nanosleep")
           /\ ctx'[p].wakeup_time = now + t[1] * 1000000 + t[2] \div 1000
    \/ \E a \in SysFutexCalls :
           /\ SysFutex(p, a)
           /\ getState(ctx', p, "futex")
           /\ ctx'[p].wakeup_futex = a.addr1
           /\ ctx'[p].wakeup_futex_bitset = AllOnes
           /\ ctx'[p].wakeup_futex_sleep = futex_sleep_count'
           /\ futex_sleep_count' = futex_sleep_count + 1

\* C13: whenever a handler has returned, every suspended context has
\* exactly one wake-up cause among read, write, waitpid, nanosleep and
\* futex; the handler that suspended it returned 0 and recorded the
\* wake-up data of that cause (descriptor, pid waited for, deadline, or
\* futex address, bitset and sleep epoch).
SuspendedHasCause ==
    /\ [](\A p \in Pids :
            getState(ctx, p, "suspended") => Cardinality(Causes(p)) = 1)
    /\ [][\A p \in Pids :
            Suspends(p) => /\ returned'.pid = p
                           /\ returned'.ret = 0
                           /\ CauseRecorded(p)]_vars

\* three contexts are suspended, each for a different cause
SuspendedHasCauseWitness ==
    /\ \A p \in Pids : getState(ctx, p, "suspended")
    /\ \A p, q \in Pids : p # q => Causes(p) # Causes(q)
    /\ returned.ret = 0

(***************************************************************************)
(* Properties of Context::ExecuteSyscall                                   *)
(***************************************************************************)
\* a step is a system call of p whose handler returned
Returns(p) == ncalls' = ncalls + 1 /\ fatal' = "" /\ returned'.pid = p

\* a step wakes q
Wakes(q) == getState(ctx, q, "suspended") /\ ~getState(ctx', q, "suspended")

\* C14: ExecuteSyscall writes the value the handler returned into eax if
\* and only if the call is not sigreturn and the context is not suspended
\* when the handler returns; otherwise eax keeps the system call code it
\* held on entry.  The eax of another context changes only if the call
\* wakes that context.
ReturnRegister ==
    [][\A p \in Pids :
         Returns(p) =>
             /\ IF /\ returned'.code # "sigreturn"
                   /\ ~getState(ctx', p, "suspended")
                THEN ctx'[p].eax = returned'.ret
                ELSE ctx'[p].eax = SyscallCode(returned'.code)
             /\ \A q \in Pids \ {p} :
                    ctx'[q].eax # ctx[q].eax => Wakes(q)]_vars

\* one context is suspended in read with the code of read in eax, another
\* was returned an error in eax
ReturnRegisterWitness ==
    \E p, q \in Pids :
        /\ getState(ctx, p, "suspended")
        /\ getState(ctx, p, "read")
        /\ ctx[p].eax = SyscallCode("read")
        /\ returned.pid = q
        /\ ~getState(ctx, q, "suspended")
        /\ returned.ret = -SIM_EBADF
        /\ ctx[q].eax = -SIM_EBADF

(***************************************************************************)
(* Runs of futex waits                                                     *)
(***************************************************************************)
\* FUTEX_WAIT (0) and FUTEX_WAIT_BITSET (9), also with FUTEX_PRIVATE_FLAG,
\* on a word that holds 0, with and without a timeout; one FUTEX_WAKE
WaitCalls ==
    {FutexCall(addr1, op, val1, timeout_ptr, 0, val3) :
        addr1 \in FutexAddrs, op \in {0, 9, 137}, val1 \in {0, 1},
        timeout_ptr \in {0, 128}, val3 \in {2}}
    \cup {FutexCall(64, 1, 1, 0, 0, 0)}

WaitNext == \E p \in Pids, a \in WaitCalls : SysFutex(p, a)

WaitSpec == Init /\ [][WaitNext]_vars

\* the step may be a system call of p: it ended the run or returned to p
MayCall(p) == fatal' # "" \/ returned'.pid = p

\* the call is a wait
IsWait(a) == FutexCmd(a.op) \in {0, 9}

\* contexts suspended in a futex
Sleepers == {q \in Pids : getState(ctx, q, "suspended") /\ getState(ctx, q, "futex")}

\* C15: a futex WAIT or WAIT_BITSET with a null timeout returns -EAGAIN
\* when the word at addr1 differs from val1: the context is not suspended
\* and the futex sleep counter is unchanged.  Otherwise the context is
\* suspended with cause futex on addr1, with bitset val3 (WAIT_BITSET) or
\* all-ones (WAIT), and its sleep epoch is the incremented counter, higher
\* than the epoch of every context that went to sleep before.
WaitSuspends ==
    [][\A p \in Pids, a \in WaitCalls :
         (MayCall(p) /\ IsWait(a) /\ a.timeout_ptr = 0 /\ SysFutex(p, a)) =>
             IF memory[a.addr1] # a.val1
             THEN /\ fatal' = ""
                  /\ returned'.ret = -SIM_EAGAIN
                  /\ ctx'[p].eax = -SIM_EAGAIN
                  /\ ctx'[p].state = {"running"}
                  /\ futex_sleep_count' = futex_sleep_count
             ELSE /\ fatal' = ""
                  /\ returned'.ret = 0
                  /\ ctx'[p].state = {"suspended", "futex"}
                  /\ ctx'[p].wakeup_futex = a.addr1
                  /\ ctx'[p].wakeup_futex_bitset =
                         IF FutexCmd(a.op) = 9 THEN a.val3 ELSE AllOnes
                  /\ futex_sleep_count' = futex_sleep_count + 1
                  /\ ctx'[p].wakeup_futex_sleep = futex_sleep_count'
                  /\ \A q \in Sleepers :
                         ctx[q].wakeup_futex_sleep < ctx'[p].wakeup_futex_sleep]_vars

\* two contexts sleep in the same futex, the second with the bitset of its
\* WAIT_BITSET and the higher epoch; a third was refused with -EAGAIN
WaitSuspendsWitness ==
    \E p, q, r \in Pids :
        /\ {p, q} \subseteq Sleepers
        /\ ctx[p].wakeup_futex = ctx[q].wakeup_futex
        /\ ctx[p].wakeup_futex_bitset = AllOnes
        /\ ctx[q].wakeup_futex_bitset = 2
        /\ ctx[p].wakeup_futex_sleep = 1
        /\ ctx[q].wakeup_futex_sleep = 2
        /\ futex_sleep_count = 2
        /\ returned = [pid |-> r, code |-> "futex", ret |-> -SIM_EAGAIN]
        /\ ctx[r].eax = -SIM_EAGAIN

\* C17: every futex WAIT or WAIT_BITSET made with a non-null timeout
\* pointer fails with the unsupported-timeout error, whatever the futex
\* word holds: the call neither suspends the context nor returns to the
\* guest.
WaitTimeoutFails ==
    [][\A p \in Pids, a \in WaitCalls :
         (MayCall(p) /\ IsWait(a) /\ a.timeout_ptr # 0 /\ SysFutex(p, a)) =>
             /\ fatal' = "syscall futex: FUTEX_WAIT not supported with timeout"
             /\ returned' = returned
             /\ ctx' = ctx]_vars

\* what the handler does with a timeout: the word is compared first, and
\* the error is raised only when the word equals val1
WaitTimeoutAfterCompare ==
    [][\A p \in Pids, a \in WaitCalls :
         (MayCall(p) /\ IsWait(a) /\ a.timeout_ptr # 0 /\ SysFutex(p, a)) =>
             IF memory[a.addr1] # a.val1
             THEN /\ fatal' = ""
                  /\ returned'.ret = -SIM_EAGAIN
                  /\ ctx'[p].eax = -SIM_EAGAIN
                  /\ ctx'[p].state = {"running"}
             ELSE /\ fatal' = "syscall futex: FUTEX_WAIT not supported with timeout"
                  /\ ctx' = ctx]_vars

(***************************************************************************)
(* Runs of futex waits and wakes                                           *)
(***************************************************************************)
\* waits that suspend, with the bitsets all-ones, 1 and 2, and FUTEX_WAKE
\* (1) and FUTEX_WAKE_BITSET (10) of up to two waiters
WakeCalls ==
    {FutexCall(addr1, 0, 0, 0, 0, 0) : addr1 \in FutexAddrs}
    \cup {FutexCall(addr1, 9, 0, 0, 0, val3) :
              addr1 \in FutexAddrs, val3 \in {1, 2}}
    \cup {FutexCall(addr1, 1, val1, 0, 0, 0) :
              addr1 \in FutexAddrs, val1 \in {0, 1, 2}}
    \cup {FutexCall(addr1, 10, val1, 0, 0, val3) :
              addr1 \in FutexAddrs, val1 \in {1, 2}, val3 \in {1, 3}}

WakeNext == \E p \in Pids, a \in WakeCalls : SysFutex(p, a)

WakeSpec == Init /\ [][WakeNext]_vars

\* the contexts a step wakes
Woken == {q \in Pids : Wakes(q)}

\* the contexts asleep in the futex whose bitset meets the given one
Matching(futex, bitset) ==
    {q \in Sleepers : /\ ctx[q].wakeup_futex = futex
                      /\ BitAnd(ctx[q].wakeup_futex_bitset, bitset) # 0}

\* the lower of two numbers
Least(a, b) == IF a < b THEN a ELSE b

\* the step wakes count contexts of the set, those with the lowest sleep
\* epochs; they resume with 0 in eax
WakesFirst(cands, count) ==
    /\ Woken \subseteq cands
    /\ Cardinality(Woken) = Least(count, Cardinality(cands))
    /\ \A q \in Woken : /\ ctx'[q].state = {"running"}
                        /\ ctx'[q].eax = 0
                        /\ \A r \in cands \ Woken :
                               ctx[q].wakeup_futex_sleep < ctx[r].wakeup_futex_sleep

\* C16: a FUTEX_WAKE or FUTEX_WAKE_BITSET on addr1 wakes the contexts
\* suspended on addr1 whose bitset intersects the bitset of the call
\* (val3, or all-ones for FUTEX_WAKE), in increasing order of sleep epoch
\* and at most val1 of them, so that a waiter stays asleep only if val1
\* waiters with lower epochs are woken; each woken waiter resumes with 0
\* in eax, and the call returns the number of contexts it woke.
WakeOrder ==
    [][\A p \in Pids, a \in WakeCalls :
         (MayCall(p) /\ FutexCmd(a.op) \in {1, 10} /\ SysFutex(p, a)) =>
             /\ fatal' = ""
             /\ WakesFirst(Matching(a.addr1, IF FutexCmd(a.op) = 10
                                             THEN a.val3 ELSE AllOnes),
                           a.val1)
             /\ returned'.ret = Cardinality(Woken)
             /\ ctx'[p].eax = Cardinality(Woken)
             /\ \A q \in Pids \ (Woken \cup {p}) : ctx'[q] = ctx[q]]_vars

\* a wake of one waiter returned 1: the waiter with epoch 1 runs again with
\* 0 in eax, the waiter with epoch 2 of the same futex is still asleep
WakeOrderWitness ==
    \E p, q, r \in Pids :
        /\ returned = [pid |-> r, code |-> "futex", ret |-> 1]
        /\ ctx[p].state = {"running"}
        /\ ctx[p].eax = 0
        /\ ctx[p].wakeup_futex_sleep = 1
        /\ q \in Sleepers
        /\ ctx[q].wakeup_futex_sleep = 2
        /\ ctx[q].wakeup_futex = ctx[p].wakeup_futex

(***************************************************************************)
(* Runs of futex waits and requeues                                        *)
(***************************************************************************)
\* waits on the word at 64, which holds 0, and FUTEX_CMP_REQUEUE (4)
\* between the two words, with ptimeout INTMAX and 0, val3 equal to the
\* word and not
RequeueCalls ==
    {FutexCall(64, 0, 0, 0, 0, 0), FutexCall(64, 9, 0, 0, 0, 2)}
    \cup {FutexCall(addr1, 4, val1, timeout_ptr, 192 - addr1, val3) :
              addr1 \in FutexAddrs, val1 \in {0, 1},
              timeout_ptr \in {IntMax, 0}, val3 \in {0, 1}}

RequeueNext == \E p \in Pids, a \in RequeueCalls : SysFutex(p, a)

RequeueSpec == Init /\ [][RequeueNext]_vars

\* what the claim says of a FUTEX_CMP_REQUEUE call a of context p
RequeueEffect(p, a) ==
    IF memory[a.addr1] # a.val3
    THEN /\ fatal' = ""
         /\ returned'.ret = -SIM_EAGAIN
         /\ ctx'[p].eax = -SIM_EAGAIN
         /\ \A q \in Pids \ {p} : ctx'[q] = ctx[q]
    ELSE /\ fatal' = ""
         /\ WakesFirst(Matching(a.addr1, AllOnes), a.val1)
         /\ returned'.ret = Cardinality(Woken)
         /\ ctx'[p].eax = Cardinality(Woken)
         /\ \A q \in Sleepers \ Woken :
                ctx'[q] = IF ctx[q].wakeup_futex = a.addr1
                          THEN [ctx[q] EXCEPT !.wakeup_futex = a.addr2]
                          ELSE ctx[q]

\* C18: FUTEX_CMP_REQUEUE returns -EAGAIN and wakes or moves no waiter if
\* the word at addr1 differs from val3; otherwise it wakes up to val1
\* waiters on addr1, moves every context still suspended on addr1 to addr2
\* with its bitset and sleep epoch unchanged, and returns the number of
\* contexts woken.
RequeueAlways ==
    [][\A p \in Pids, a \in RequeueCalls :
         (MayCall(p) /\ FutexCmd(a.op) = 4 /\ SysFutex(p, a)) => RequeueEffect(p, a)]_vars

\* C18, amended: the call has this effect when its fourth argument is
\* INTMAX; with any other value it ends the run with a fatal error,
\* whatever the word at addr1 holds.
RequeueMoves ==
    [][\A p \in Pids, a \in RequeueCalls :
         (MayCall(p) /\ FutexCmd(a.op) = 4 /\ SysFutex(p, a)) =>
             IF a.timeout_ptr = IntMax
             THEN RequeueEffect(p, a)
             ELSE /\ fatal' = "futex: FUTEX_CMP_REQUEUE: only supported for ptimeout=INTMAX"
                  /\ ctx' = ctx]_vars

\* a requeue that woke one waiter returned 1: the waiter with epoch 1 runs
\* again, the waiter with epoch 2 now sleeps in the word at 128 with the
\* bitset of its wait
RequeueMovesWitness ==
    \E p, q, r \in Pids :
        /\ returned = [pid |-> r, code |-> "futex", ret |-> 1]
        /\ ctx[p].state = {"running"}
        /\ ctx[p].eax = 0
        /\ ctx[p].wakeup_futex_sleep = 1
        /\ q \in Sleepers
        /\ ctx[q].wakeup_futex = 128
        /\ ctx[q].wakeup_futex_bitset = 2
        /\ ctx[q].wakeup_futex_sleep = 2

(***************************************************************************)
(* Runs of futex waits and FUTEX_WAKE_OP                                   *)
(***************************************************************************)
\* val3 of FUTEX_WAKE_OP
WakeOpCode(op, cmp, oparg, cmparg) ==
    op * 2 ^ 28 + cmp * 2 ^ 24 + oparg * 2 ^ 12 + cmparg

\* every operation and every comparison, an operation and a comparison
\* that do not exist
WakeOpCodes ==
    {WakeOpCode(0, 0, 1, 0), WakeOpCode(1, 1, 1, 0), WakeOpCode(2, 2, 2, 1),
     WakeOpCode(3, 3, 1, 0), WakeOpCode(4, 4, 3, 0), WakeOpCode(1, 5, 4095, 1),
     WakeOpCode(5, 0, 0, 0), WakeOpCode(0, 6, 0, 0)}

\* waits on both words, FUTEX_WAKE_OP (5) that wakes on the word at 64 and
\* updates the word at 128, and a command the handler does not implement
WakeOpCalls ==
    {FutexCall(64, 0, 0, 0, 0, 0)}
    \cup {FutexCall(128, 0, val1, 0, 0, 0) : val1 \in {0, 1}}
    \cup {FutexCall(64, 5, v[1], v[2], 128, val3) :
              v \in {<<1, 1>>, <<0, 1>>, <<1, 0>>}, val3 \in WakeOpCodes}
    \cup {FutexCall(64, 3, 1, 0, 128, 0)}

WakeOpNext == \E p \in Pids, a \in WakeOpCalls : SysFutex(p, a)

WakeOpSpec == Init /\ [][WakeOpNext]_vars

\* the value FUTEX_OP_SET, ADD, OR, AND and XOR leave in the word
OpResult(op, oldval, oparg) ==
    CASE op = 0 -> oparg
      [] op = 1 -> Add32(oldval, oparg)
      [] op = 2 -> BitOr(oldval, oparg)
      [] op = 3 -> BitAnd(oldval, oparg)
      [] op = 4 -> BitXor(oldval, oparg)

\* the comparisons EQ, NE, LT, LE, GT and GE
CmpHolds(cmp, oldval, cmparg) ==
    CASE cmp = 0 -> oldval = cmparg
      [] cmp = 1 -> oldval # cmparg
      [] cmp = 2 -> oldval < cmparg
      [] cmp = 3 -> oldval <= cmparg
      [] cmp = 4 -> oldval > cmparg
      [] cmp = 5 -> oldval >= cmparg

\* the step wakes count sleepers of the futex, lowest sleep epochs first
WakesAt(futex, count) ==
    LET cands == Matching(futex, AllOnes)
        woken == Woken \cap cands
    IN  /\ Cardinality(woken) = Least(count, Cardinality(cands))
        /\ \A q \in woken : /\ ctx'[q].state = {"running"}
                            /\ ctx'[q].eax = 0
                            /\ \A r \in cands \ woken :
                                   ctx[q].wakeup_futex_sleep
                                       < ctx[r].wakeup_futex_sleep

\* C19: FUTEX_WAKE_OP reads oldval from the word at addr2 and writes back
\* op(oldval, oparg) for op among SET, ADD, OR, AND and XOR, with op and
\* oparg decoded from val3; it wakes up to val1 waiters on addr1, then up
\* to val2 waiters on addr2 if and only if the comparison selected by val3
\* holds between oldval and cmparg, and returns the number of contexts
\* woken by both wakes.  The read and the write are one step.
WakeOpUpdates ==
    [][\A p \in Pids, a \in WakeOpCalls :
         LET f == WakeOpFields(a.val3)
             oldval == memory[a.addr2]
         IN  (/\ MayCall(p)
              /\ FutexCmd(a.op) = 5
              /\ f.op <= 4
              /\ f.cmp <= 5
              /\ SysFutex(p, a)) =>
                 /\ fatal' = ""
                 /\ memory' = [memory EXCEPT
                                  ![a.addr2] = OpResult(f.op, oldval, f.oparg)]
                 /\ WakesAt(a.addr1, a.val1)
                 /\ WakesAt(a.addr2, IF CmpHolds(f.cmp, oldval, f.cmparg)
                                     THEN a.timeout_ptr ELSE 0)
                 /\ Woken \subseteq Matching(a.addr1, AllOnes)
                                        \cup Matching(a.addr2, AllOnes)
                 /\ returned'.ret = Cardinality(Woken)
                 /\ ctx'[p].eax = Cardinality(Woken)
                 /\ \A q \in Pids \ (Woken \cup {p}) : ctx'[q] = ctx[q]]_vars

\* a FUTEX_WAKE_OP returned 2: it set the word at 128 to 1 and woke a
\* waiter of each word
WakeOpUpdatesWitness ==
    \E p, q, r \in Pids :
        /\ returned = [pid |-> r, code |-> "futex", ret |-> 2]
        /\ memory[128] = 1
        /\ ctx[p].state = {"running"} /\ ctx[p].eax = 0
        /\ ctx[p].wakeup_futex = 64 /\ ctx[p].wakeup_futex_sleep > 0
        /\ ctx[q].state = {"running"} /\ ctx[q].eax = 0
        /\ ctx[q].wakeup_futex = 128 /\ ctx[q].wakeup_futex_sleep > 0

(***************************************************************************)
(* Runs of brk                                                             *)
(***************************************************************************)
\* brk(0), breaks at and off page boundaries, below and above the break
\* of the loader, one beyond the region mapped above the heap
BrkArgs ==
    {0, 2 * MemoryPageSize, LoaderHeapBreak, 3 * MemoryPageSize,
     3 * MemoryPageSize + 12, 6 * MemoryPageSize}

BrkNext == \E p \in Pids, x \in BrkArgs : SysBrk(p, x)

BrkSpec == Init /\ [][BrkNext]_vars

\* the last call was a brk that returned the heap break it set
AfterBrk ==
    /\ returned.code = "brk"
    /\ returned.ret = heap_break
    /\ heap_break # LoaderHeapBreak

\* C20: for any x, after the call brk(x) the call brk(0) returns the new
\* heap break rounded up to a multiple of the page size of 4 KiB.
BrkReturnsAligned ==
    [][\A p \in Pids :
         (AfterBrk /\ SysBrk(p, 0)) =>
             returned'.ret = RoundUp(heap_break, MemoryPageSize)]_vars

\* what brk(0) returns after brk(x): x itself, aligned or not
BrkReturnsBreak ==
    [][\A p \in Pids :
         (AfterBrk /\ SysBrk(p, 0)) =>
             /\ returned'.ret = heap_break
             /\ ctx'[p].eax = heap_break
             /\ heap_break' = heap_break]_vars

\* C21: for every nonzero x, a brk(x) that returns returns x and leaves
\* the heap break equal to x, whether x is above, below or equal to the
\* current break; brk(0) returns the current break and changes nothing.
BrkReturnsArgument ==
    [][\A p \in Pids, x \in BrkArgs :
         (MayCall(p) /\ SysBrk(p, x) /\ fatal' = "") =>
             IF x # 0
             THEN /\ returned'.ret = x
                  /\ ctx'[p].eax = x
                  /\ heap_break' = x
             ELSE /\ returned'.ret = heap_break
                  /\ heap_break' = heap_break
                  /\ pages' = pages]_vars

\* what brk does: a nonzero x that differs from the break becomes the
\* break and is returned; a nonzero x equal to the break returns 0
BrkMovesBreak ==
    [][\A p \in Pids, x \in BrkArgs :
         (MayCall(p) /\ SysBrk(p, x) /\ fatal' = "") =>
             IF x = 0
             THEN /\ returned'.ret = heap_break
                  /\ heap_break' = heap_break
                  /\ pages' = pages
             ELSE IF x = heap_break
             THEN /\ returned'.ret = 0
                  /\ ctx'[p].eax = 0
                  /\ heap_break' = heap_break
                  /\ pages' = pages
             ELSE /\ returned'.ret = x
                  /\ ctx'[p].eax = x
                  /\ heap_break' = x]_vars

(***************************************************************************)
(* Context::ExecuteSyscall_clone                                           *)
(***************************************************************************)
SIM_CLONE_VM == 256
SIM_CLONE_FS == 512
SIM_CLONE_FILES == 1024
SIM_CLONE_SIGHAND == 2048
SIM_CLONE_VFORK == 16384
SIM_CLONE_THREAD == 65536
SIM_CLONE_SYSVSEM == 262144
SIM_CLONE_SETTLS == 524288
SIM_CLONE_PARENT_SETTID == 1048576
SIM_CLONE_CHILD_CLEARTID == 2097152
SIM_CLONE_CHILD_SETTID == 16777216

clone_supported_flags ==
    SIM_CLONE_VM + SIM_CLONE_FS + SIM_CLONE_FILES + SIM_CLONE_SIGHAND
    + SIM_CLONE_THREAD + SIM_CLONE_SYSVSEM + SIM_CLONE_SETTLS
    + SIM_CLONE_PARENT_SETTID + SIM_CLONE_CHILD_CLEARTID
    + SIM_CLONE_CHILD_SETTID

\* ~word
BitNot(a) == -a - 1

\* flags & mask is not zero
HasFlag(flags, mask) == BitAnd(flags, mask) # 0

\* the three flags that go with SIM_CLONE_VM
SharingFlags == SIM_CLONE_FS + SIM_CLONE_FILES + SIM_CLONE_SIGHAND

\* a context that does not exist yet has no state bit (ContextInvalid)
Created(c, q) == c[q].state # {}

\* emu->newContext: the next pid; pids are handed out in increasing order
\* and never reused
newContext(c) ==
    IF \E q \in Pids : ~Created(c, q)
    THEN CHOOSE q \in Pids : /\ ~Created(c, q)
                             /\ \A r \in Pids : ~Created(c, r) => q <= r
    ELSE NoPid

\* Context::Clone: the child runs with a copy of the registers and points
\* to the memory, the file table and the signal handlers of the parent
Clone(w, child, p) ==
    [w EXCEPT !.ctx[child] =
        [NewContext({"running"}, p) EXCEPT
            !.eax = w.ctx[p].eax, !.ecx = w.ctx[p].ecx, !.esp = w.ctx[p].esp,
            !.mem = w.ctx[p].mem, !.files = w.ctx[p].files,
            !.sighand = w.ctx[p].sighand]]

\* Context::Fork: the child runs with a copy of the registers, and with
\* copies of its own of the memory image, the file table and the signal
\* handlers
Fork(w, child, p) ==
    [w EXCEPT !.ctx[child] =
                 [NewContext({"running"}, p) EXCEPT
                     !.eax = w.ctx[p].eax, !.ecx = w.ctx[p].ecx,
                     !.esp = w.ctx[p].esp,
                     !.mem = child, !.files = child, !.sighand = child],
              !.images[child] =
                 [memory |-> w.memory, heap_break |-> w.heap_break,
                  pages |-> w.pages]]

\* with SIM_CLONE_VM: the three sharing flags are all there
SharingAllowed(flags) == BitAnd(flags, SharingFlags) = SharingFlags

\* without SIM_CLONE_VM: none of the three sharing flags is there
ForkAllowedAlways(flags) == TRUE

ForkAllowed(flags) == ~HasFlag(flags, SharingFlags)

\* the thread group of the child
GroupParentCaller(c, p) == p

GroupParent(c, p) ==
    IF c[p].group_parent # NoPid THEN c[p].group_parent ELSE p

\* the stack pointer of the child
ChildEsp(c, p, newsp) == IF newsp = 0 THEN c[p].esp ELSE newsp

\* context->memory->Write: a write into the memory of the child, which is
\* the memory of the caller when they share it
WriteChild(w, child, addr, value) ==
    IF w.ctx[child].mem = child
    THEN [w EXCEPT !.images[child].memory =
                       WriteWord(w.images[child].memory, addr, value)]
    ELSE [w EXCEPT !.memory = WriteWord(w.memory, addr, value)]

\* a: [flags, newsp, parent_tid_ptr, child_tid_ptr, uinfo_ptr, uinfo]; uinfo
\* is the sim_user_desc the guest keeps at uinfo_ptr (esi), of which the
\* memory image of the model holds the first word, entry_number
ExecuteSyscall_clone(w, p, a) ==
    LET exit_signal == BitAnd(a.flags, 255)
        flags == BitAnd(a.flags, BitNot(255))
        new_esp == ChildEsp(w.ctx, p, a.newsp)
        child == newContext(w.ctx)
        w1 == IF HasFlag(flags, SIM_CLONE_VM)
              THEN Clone(w, child, p)
              ELSE Fork(w, child, p)
        w2 == IF HasFlag(flags, SIM_CLONE_THREAD)
              THEN [w1 EXCEPT !.ctx[child].exit_signal = 0,
                              !.ctx[child].group_parent =
                                  GroupParent(w.ctx, p)]
              ELSE [w1 EXCEPT !.ctx[child].exit_signal = exit_signal,
                              !.ctx[child].group_parent = NoPid]
        w3 == IF HasFlag(flags, SIM_CLONE_PARENT_SETTID)
              THEN [w2 EXCEPT !.memory =
                       WriteWord(w2.memory, a.parent_tid_ptr, child)]
              ELSE w2
        w4 == IF HasFlag(flags, SIM_CLONE_CHILD_SETTID)
              THEN WriteChild(w3, child, a.child_tid_ptr, child)
              ELSE w3
        w5 == IF HasFlag(flags, SIM_CLONE_CHILD_CLEARTID)
              THEN [w4 EXCEPT !.ctx[child].clear_child_tid = a.child_tid_ptr]
              ELSE w4
        w6 == IF HasFlag(flags, SIM_CLONE_SETTLS)
              THEN [w5 EXCEPT
                      !.memory = WriteWord(w5.memory, a.uinfo_ptr, 6),
                      !.ctx[child].glibc_segment_base = a.uinfo.base_addr,
                      !.ctx[child].glibc_segment_limit =
                          IF a.uinfo.limit_in_pages
                          THEN a.uinfo.limit * MemoryPageSize
                          ELSE a.uinfo.limit]
              ELSE w5
    IN  IF BitAnd(flags, BitNot(clone_supported_flags)) # 0
        THEN Fatal(w, "clone: not supported flags")
        ELSE IF HasFlag(flags, SIM_CLONE_VM) /\ ~SharingAllowed(flags)
        THEN Fatal(w, "clone: not supported flags with CLONE_VM")
        ELSE IF ~HasFlag(flags, SIM_CLONE_VM) /\ ~ForkAllowed(flags)
        THEN Fatal(w, "clone: not supported flags without CLONE_VM")
        ELSE IF HasFlag(flags, SIM_CLONE_SETTLS) /\ ~a.uinfo.seg_32bit
        THEN Fatal(w, "clone: only 32-bit segments supported")
        ELSE [w6 EXCEPT !.ctx[child].esp = new_esp,
                        !.ctx[child].eax = 0,
                        !.ret = child]

\* the guest calls clone; the model has a pid left for the child
SysClone(p, a) ==
    /\ CanExecute(p)
    /\ newContext(ctx) # NoPid
    /\ ExecuteSyscall(p, "clone", ExecuteSyscall_clone(Entry(p, "clone"), p, a))

\* the sim_user_desc records the guest passes
UserDescs ==
    {[seg_32bit |-> TRUE, base_addr |-> 6 * MemoryPageSize, limit |-> 15,
      limit_in_pages |-> TRUE],
     [seg_32bit |-> TRUE, base_addr |-> 6 * MemoryPageSize, limit |-> 4095,
      limit_in_pages |-> FALSE],
     [seg_32bit |-> FALSE, base_addr |-> 0, limit |-> 0,
      limit_in_pages |-> FALSE]}

\* the flags of pthread_create
ThreadFlags ==
    SIM_CLONE_VM + SharingFlags + SIM_CLONE_THREAD + SIM_CLONE_SYSVSEM
    + SIM_CLONE_SETTLS + SIM_CLONE_PARENT_SETTID + SIM_CLONE_CHILD_CLEARTID

\* 17 is SIGCHLD, the exit signal of a forked child
CloneFlags ==
    {ThreadFlags,
     SIM_CLONE_VM + SharingFlags + 17,
     SIM_CLONE_CHILD_SETTID + SIM_CLONE_CHILD_CLEARTID + 17,
     17,
     SIM_CLONE_THREAD,
     SIM_CLONE_VM,
     SIM_CLONE_VM + SIM_CLONE_FS + SIM_CLONE_SIGHAND,
     SIM_CLONE_FS + 17,
     SIM_CLONE_FILES + SIM_CLONE_SIGHAND + SIM_CLONE_THREAD,
     SIM_CLONE_VM + SharingFlags + SIM_CLONE_VFORK}

CloneCalls ==
    {[flags |-> f, newsp |-> s, parent_tid_ptr |-> 64, child_tid_ptr |-> 128,
      uinfo_ptr |-> 128, uinfo |-> u] :
        f \in CloneFlags, s \in {0, 5 * MemoryPageSize},
        u \in {d \in UserDescs : d.limit_in_pages}}
    \cup
    {[flags |-> ThreadFlags, newsp |-> 5 * MemoryPageSize,
      parent_tid_ptr |-> 64, child_tid_ptr |-> 128, uinfo_ptr |-> 128,
      uinfo |-> u] : u \in UserDescs}

CloneBrkArgs == {3 * MemoryPageSize + 12}

\* only the first context exists
CloneInit ==
    /\ MoesiInit
    /\ ctx = [p \in Pids |->
                 IF p = RootPid THEN NewContext({"running"}, NoPid)
                 ELSE NewContext({}, NoPid)]
    /\ GuestInit
    /\ ClrtInit

CloneNext ==
    \/ \E p \in Pids, a \in CloneCalls : SysClone(p, a)
    \/ \E p \in Pids, x \in CloneBrkArgs : SysBrk(p, x)

CloneSpec == CloneInit /\ [][CloneNext]_vars

(***************************************************************************)
(* clone: what the child shares with the caller                            *)
(***************************************************************************)
\* the flags of a call without the exit signal in the low byte
FlagsOf(a) == a.flags - (a.flags % 256)

WithVm(a) == HasFlag(FlagsOf(a), SIM_CLONE_VM)

\* how many of CLONE_FS, CLONE_FILES and CLONE_SIGHAND a call carries
SharingCount(a) ==
    Cardinality({f \in {SIM_CLONE_FS, SIM_CLONE_FILES, SIM_CLONE_SIGHAND} :
                    HasFlag(FlagsOf(a), f)})

\* no flag outside the supported set
Supported(a) == BitAnd(FlagsOf(a), BitNot(clone_supported_flags)) = 0

\* the call ends the program and the guest sees no pid
NoChild ==
    /\ fatal' # ""
    /\ returned' = returned
    /\ ctx' = ctx
    /\ images' = images

\* the call of p returns the pid of a context that did not exist before
ChildCreated(p) ==
    /\ fatal' = ""
    /\ returned'.pid = p /\ returned'.code = "clone"
    /\ returned'.ret \in Pids
    /\ ~Created(ctx, returned'.ret)
    /\ getState(ctx', returned'.ret, "running")
    /\ ctx'[returned'.ret].parent = p

\* the child points to the memory, file table and handlers of the caller
Shares(p, child) ==
    /\ ctx'[child].mem = ctx'[p].mem
    /\ ctx'[child].files = ctx'[p].files
    /\ ctx'[child].sighand = ctx'[p].sighand

\* the child has a memory image no other context points to, equal to the
\* image of the caller at the call but for the word of the child's tid
DeepCopy(p, a, child) ==
    /\ ctx'[child].mem = child
    /\ \A q \in Pids \ {child} : ctx'[q].mem # child
    /\ images'[child].heap_break = CallerImage(p).heap_break
    /\ images'[child].pages = CallerImage(p).pages
    /\ \A addr \in GuestAddrs :
          \/ images'[child].memory[addr] = CallerImage(p).memory[addr]
          \/ /\ HasFlag(FlagsOf(a), SIM_CLONE_CHILD_SETTID)
             /\ addr = a.child_tid_ptr
             /\ images'[child].memory[addr] = child

NewPids == {q \in Pids : ~Created(ctx, q) /\ Created(ctx', q)}

\* a thread group has one level: the group parent of a context is in no
\* group of another context
GroupParentsFlat ==
    \A q \in Pids :
        ctx[q].group_parent # NoPid =>
            /\ Created(ctx, ctx[q].group_parent)
            /\ ctx[ctx[q].group_parent].group_parent = NoPid

\* what a clone call that returns leaves in its one new context
CloneChild ==
    [][\A p \in Pids, a \in CloneCalls :
         (MayCall(p) /\ SysClone(p, a) /\ fatal' = "") =>
            /\ Cardinality(NewPids) = 1
            /\ \A child \in NewPids :
                  /\ IF HasFlag(FlagsOf(a), SIM_CLONE_THREAD)
                     THEN /\ ctx'[child].exit_signal = 0
                          /\ ctx'[child].group_parent =
                                IF ctx[p].group_parent # NoPid
                                THEN ctx[p].group_parent
                                ELSE p
                     ELSE /\ ctx'[child].exit_signal = a.flags % 256
                          /\ ctx'[child].group_parent = NoPid
                  /\ returned'.ret = child
                  /\ ctx'[p].eax = child
                  /\ ctx'[child].eax = 0
                  /\ ctx'[child].esp =
                        IF a.newsp = 0 THEN ctx[p].esp ELSE a.newsp]_vars

\* C23: a child of CLONE_THREAD has exit_signal 0 and the group parent of
\* the caller, or the caller when it has none, so that every group parent
\* has no group parent itself; a child without CLONE_THREAD has no group
\* parent and the low byte of the flags as exit signal; the caller gets the
\* pid of the child, the child gets 0 in eax and newsp, or the stack pointer
\* of the caller when newsp is 0, in esp.
CloneThreadGroup == []GroupParentsFlat /\ CloneChild

\* a thread made by a thread: it is in the group of the first context,
\* and a forked child next to it carries its exit signal
CloneThreadGroupWitness ==
    \E q \in Pids :
        /\ returned.code = "clone" /\ returned.ret = q
        /\ ctx[q].parent # NoPid
        /\ ctx[ctx[q].parent].group_parent # NoPid
        /\ ctx[q].group_parent = ctx[ctx[q].parent].group_parent
        /\ ctx[q].group_parent # ctx[q].parent
        /\ ctx[q].exit_signal = 0
        /\ ctx[q].eax = 0
        /\ ctx[q].esp = ctx[ctx[q].parent].esp
        /\ ctx[q].esp # LoaderStackTop

(***************************************************************************)
(* waitpid: reaping a zombie child                                         *)
(***************************************************************************)
ReapExitCodes == {1, 7}
ReapPids == {-1, 101, 102}
ReapStatusPtrs == {0, 128}
ReapOptions == {0, 1, 2}

ReapNext ==
    \/ \E p \in Pids, status \in ReapExitCodes : SysExit(p, status)
    \/ \E p \in Pids, pid \in ReapPids, ptr \in ReapStatusPtrs,
          o \in ReapOptions : SysWaitpid(p, pid, ptr, o)
    \/ \E p \in Pids : WakeupWaitpid(p)

ReapSpec == Init /\ [][ReapNext]_vars

\* the zombie children of p that a waitpid for pid asks for
ZombieChildren(p, pid) ==
    {q \in Pids : /\ "zombie" \in ctx[q].state
                  /\ ctx[q].parent = p
                  /\ (pid = -1 \/ q = pid)}

\* the step moves child from zombie to finished and nothing else
Reaps(child) ==
    /\ "zombie" \in ctx[child].state
    /\ "finished" \in ctx'[child].state
    /\ "zombie" \notin ctx'[child].state
    /\ \A q \in Pids \ {child} :
          ("finished" \in ctx'[q].state) = ("finished" \in ctx[q].state)

\* what one waitpid call that returns does
ReapCall ==
    [][\A p \in Pids, pid \in ReapPids, ptr \in ReapStatusPtrs,
          o \in ReapOptions :
         (MayCall(p) /\ SysWaitpid(p, pid, ptr, o) /\ fatal' = "") =>
            IF ZombieChildren(p, pid) # {}
            THEN \E child \in ZombieChildren(p, pid) :
                    /\ Reaps(child)
                    /\ returned'.ret = child
                    /\ ctx'[p].eax = child
                    /\ "running" \in ctx'[p].state
                    /\ memory' = IF ptr = 0 THEN memory
                                 ELSE [memory EXCEPT
                                          ![ptr] = ctx[child].exit_code]
            ELSE /\ memory' = memory
                 /\ \A q \in Pids :
                       ("finished" \in ctx'[q].state)
                           = ("finished" \in ctx[q].state)
                 /\ IF BitAnd(o, 1) = 0
                    THEN /\ ctx'[p].state = {"suspended", "waitpid"}
                         /\ ctx'[p].wakeup_pid = pid
                    ELSE /\ returned'.ret = 0
                         /\ ctx'[p].eax = 0
                         /\ ctx'[p].state = {"running"}]_vars

\* a finished context stays finished and is no zombie
ReapedOnce ==
    [][\A q \in Pids :
         "finished" \in ctx[q].state =>
             /\ "finished" \in ctx'[q].state
             /\ "zombie" \notin ctx'[q].state]_vars

\* C24: waitpid with a zombie child matching pid writes the exit code of
\* the child to status_ptr unless it is null, moves the child from zombie to
\* finished and returns its pid, so that a child is reaped at most once;
\* with no such zombie it suspends the caller for waitpid with wakeup_pid =
\* pid when WNOHANG is clear, and returns 0 to the running caller when
\* WNOHANG is set.
WaitpidReaps == ReapCall /\ ReapedOnce

\* a waitpid call has reaped a child and stored its exit code, while the
\* other child is still a zombie
WaitpidReapsWitness ==
    \E child, other \in Pids :
        /\ returned.code = "waitpid" /\ returned.ret = child
        /\ "finished" \in ctx[child].state
        /\ memory[128] = ctx[child].exit_code
        /\ ctx[child].exit_code # 0
        /\ "zombie" \in ctx[other].state

(***************************************************************************)
(* nanosleep: the wake deadline                                            *)
(***************************************************************************)
\* <<sec, nsec>> of the requests
SleepRequests == {<<0, 999>>, <<0, 1999>>, <<0, 2000>>, <<1, 500>>}

SleepNext ==
    \/ \E p \in Pids, t \in SleepRequests : SysNanosleep(p, t[1], t[2])
    \/ \E p \in Pids : WakeupNanosleep(p)
    \/ AdvanceTime

SleepSpec == Init /\ [][SleepNext]_vars

\* the whole microseconds in a number of nanoseconds, counted up
RECURSIVE WholeMicroseconds(_)
WholeMicroseconds(nsec) ==
    IF nsec < 1000 THEN 0 ELSE 1 + WholeMicroseconds(nsec - 1000)

\* every nanosleep call suspends the caller until the deadline
SleepCall ==
    [][\A p \in Pids, t \in SleepRequests :
         (MayCall(p) /\ SysNanosleep(p, t[1], t[2])) =>
            /\ fatal' = ""
            /\ returned' = [pid |-> p, code |-> "nanosleep", ret |-> 0]
            /\ ctx'[p].state = {"suspended", "nanosleep"}
            /\ ctx'[p].wakeup_time =
                  now + t[1] * 1000000 + WholeMicroseconds(t[2])]_vars

\* a context leaves its sleep only at or after its deadline
SleepEnds ==
    [][\A p \in Pids :
         ("nanosleep" \in ctx[p].state /\ "nanosleep" \notin ctx'[p].state) =>
             /\ now >= ctx[p].wakeup_time
             /\ ctx'[p].state = {"running"}]_vars

\* C25: nanosleep always suspends the caller with cause nanosleep and the
\* deadline now + sec * 1000000 + floor(nsec / 1000) microseconds, and its
\* handler returns 0; the context is not woken for nanosleep before real
\* time has reached the deadline.
NanosleepDeadline == SleepCall /\ SleepEnds

\* a request of 1999 ns has ended after one microsecond while a request
\* of 2000 ns made at the same time is still asleep
NanosleepDeadlineWitness ==
    \E p, q \in Pids :
        /\ ctx[p].state = {"running"} /\ ctx[p].wakeup_time = 1 /\ now = 1
        /\ ctx[q].state = {"suspended", "nanosleep"}
        /\ ctx[q].wakeup_time = 2

(***************************************************************************)
(* Write request up-down                                                   *)
(***************************************************************************)
\* the number of events ev in the queue q
CountEvents(q, ev) == Cardinality({i \in 1 .. Len(q) : q[i].ev = ev})

\* the state of the block that the write request of frame s has locked
TargetState(s) ==
    cache[stacks[s].target_mod][stacks[s].set][stacks[s].way].state

\* the state of that block after the step
TargetStateAfter(s) ==
    cache'[stacks[s].target_mod][stacks[s].set][stacks[s].way].state

\* the directory of the target after a write request up-down of frame s:
\* the requester is the one sharer and the owner of the sub-blocks it asked
\* for, and no other module above the target holds the block
WriteUpdownDirectory(s) ==
    LET tm == stacks[s].target_mod
        mod == stacks[s].mod
    IN  /\ \A z \in ZRange(tm) :
              (/\ stacks[s].tag + z * cache_min_block_size >= stacks[s].addr
               /\ stacks[s].tag + z * cache_min_block_size
                      < stacks[s].addr + BlockSize(mod))
              => dir'[tm][stacks[s].set][stacks[s].way][z] =
                     [sharers |-> {NodeIndex(mod)}, owner |-> NodeIndex(mod)]
        /\ \A u \in Mods :
              (LowMod(u) = tm /\ u # mod)
                  => HeldState(cache', u, stacks[s].addr) = "I"

\* a write request is sent further down exactly when the target block is
\* not M or E
WriteUpdownRequests ==
    Fired("EV_MOD_WRITE_REQUEST_UPDOWN") =>
        CountEvents(events', "EV_MOD_WRITE_REQUEST")
            = CountEvents(events, "EV_MOD_WRITE_REQUEST")
              + (IF TargetState(e.st) \in {"M", "E"} THEN 0 ELSE 1)

\* C26 as stated: a write request up-down that completes without error
\* leaves the target block in state M, the requester as the only sharer and
\* the owner of every requested sub-block, and every other upper-level
\* sharer invalidated; it sends no write request further down when the
\* block was M or E, and exactly one otherwise.
WriteUpdownModified ==
    [][/\ (Fired("EV_MOD_WRITE_REQUEST_UPDOWN_FINISH") /\ ~stacks[e.st].err
              /\ aborted' = "")
          => /\ TargetStateAfter(e.st) = "M"
             /\ WriteUpdownDirectory(e.st)
       /\ WriteUpdownRequests]_vars

\* C26: a write request up-down that completes without error leaves the
\* target block in state M when it was M and in state E otherwise, the
\* requester as the only sharer and the owner of every requested sub-block,
\* and every other upper-level sharer invalidated; it sends no write
\* request further down when the block was M or E, and exactly one
\* otherwise.
WriteUpdownExclusive ==
    [][/\ (Fired("EV_MOD_WRITE_REQUEST_UPDOWN_FINISH") /\ ~stacks[e.st].err
              /\ aborted' = "")
          => /\ TargetStateAfter(e.st) =
                    IF TargetState(e.st) = "M" THEN "M" ELSE "E"
             /\ WriteUpdownDirectory(e.st)
       /\ WriteUpdownRequests]_vars

\* a write request of an L1 that found the L2 block exclusive has made the
\* L1 its one sharer and owner, and a write request that missed in the L2
\* has sent its one request to main memory
WriteUpdownExclusiveWitness ==
    \E s \in StackIds :
        /\ stacks[s].used
        /\ Scheduled(events, "EV_MOD_WRITE_REQUEST_REPLY", s)
        /\ stacks[s].target_mod = "l2"
        /\ ~stacks[s].err
        /\ stacks[s].reply_size = BlockSize(stacks[s].mod) + 8
        /\ stacks[s].state \in {"E", "I"}
        /\ TargetState(s) = "E"
        /\ \A z \in ZRange("l2") :
              dir["l2"][stacks[s].set][stacks[s].way][z] =
                  [sharers |-> {NodeIndex(stacks[s].mod)},
                   owner |-> NodeIndex(stacks[s].mod)]
        /\ issued = 2

(***************************************************************************)
(* Find-and-lock: the victim of a miss                                     *)
(***************************************************************************)
\* the least recently used way of the set
LruWay(m, set) == lru[m][set][Len(lru[m][set])]

\* some node above m is a sharer of a sub-block of the block
SharedAbove(m, set, way) ==
    \E z \in ZRange(m) : dir[m][set][way][z].sharers # {}

\* the step creates an evict sub-flow of frame s for its block
EvictScheduled(s) ==
    \E n \in StackIds :
        /\ ~stacks[n].used /\ stacks'[n].used
        /\ stacks'[n].ret_stack = s
        /\ stacks'[n].mod = stacks[s].mod
        /\ stacks'[n].set = stacks[s].set /\ stacks'[n].way = stacks[s].way
        /\ Scheduled(events', "EV_MOD_EVICT", n)

\* a find-and-lock that misses and gets the lock has locked the LRU way
VictimIsLru ==
    (Fired("EV_MOD_FIND_AND_LOCK") /\ stacks'[e.st].used /\ ~stacks'[e.st].hit)
        => LET s == e.st
               mod == stacks[s].mod
               set == SetOf(mod, Tag(mod, stacks[s].addr))
           IN  /\ stacks'[s].set = set
               /\ stacks'[s].way = LruWay(mod, set)
               /\ stacks'[s].state = cache[mod][set][LruWay(mod, set)].state

\* without an eviction the find-and-lock goes on to its finish step
NoEvictFinishes ==
    Fired("EV_MOD_FIND_AND_LOCK_ACTION")
        => \/ EvictScheduled(e.st) /\ ~Scheduled(events', "EV_MOD_FIND_AND_LOCK_FINISH", e.st)
           \/ /\ ~EvictScheduled(e.st)
              /\ stacks' = stacks
              /\ \E i \in 1 .. Len(events') :
                    events'[i] = Ev("EV_MOD_FIND_AND_LOCK_FINISH", e.st, 0)

\* C27 as stated: on a miss the LRU way is the victim, and an evict sub-flow
\* is scheduled exactly when the victim block is valid and not shared by
\* any upper-level node; without an eviction the find-and-lock goes on to
\* its finish step.
EvictsUnsharedVictim ==
    [][/\ VictimIsLru
       /\ NoEvictFinishes
       /\ (Fired("EV_MOD_FIND_AND_LOCK_ACTION") /\ ~stacks[e.st].hit)
             => LET s == e.st
                    mod == stacks[s].mod
                    set == stacks[s].set
                    way == stacks[s].way
                IN  EvictScheduled(s) <=>
                        (/\ cache[mod][set][way].state # "I"
                         /\ ~SharedAbove(mod, set, way))]_vars

\* C27: on a miss the LRU way is the victim, and an evict sub-flow is
\* scheduled exactly when the victim block is valid, whether or not a node
\* above shares it; on a hit none is scheduled; without an eviction the
\* find-and-lock goes on to its finish step.
EvictsValidVictim ==
    [][/\ VictimIsLru
       /\ NoEvictFinishes
       /\ Fired("EV_MOD_FIND_AND_LOCK_ACTION")
             => LET s == e.st
                    mod == stacks[s].mod
                    set == stacks[s].set
                    way == stacks[s].way
                IN  EvictScheduled(s) <=>
                        (/\ ~stacks[s].hit
                         /\ cache[mod][set][way].state # "I")]_vars

\* the find-and-lock of a miss in the L2 has scheduled the eviction of a
\* valid victim that an L1 shares
EvictsValidVictimWitness ==
    \E s, n \in StackIds :
        /\ stacks[s].used /\ stacks[n].used
        /\ stacks[s].eviction /\ ~stacks[s].hit
        /\ stacks[n].ret_stack = s
        /\ Scheduled(events, "EV_MOD_EVICT", n)
        /\ stacks[s].mod = "l2"
        /\ stacks[s].way = stacks[n].way
        /\ cache["l2"][stacks[s].set][stacks[s].way].state # "I"
        /\ SharedAbove("l2", stacks[s].set, stacks[s].way)

(***************************************************************************)
(* Read request up-down on a valid block                                   *)
(***************************************************************************)
\* the frames that the step creates
NewFrames == {n \in StackIds : ~stacks[n].used /\ stacks'[n].used}

\* the sub-flows of frame s that have not returned
Children(s) == {n \in StackIds : stacks[n].used /\ stacks[n].ret_stack = s}

\* the block of the target that the request of frame s has locked is valid
\* and holds the tag of the request
TargetValid(s) ==
    /\ TargetState(s) # "I"
    /\ cache[stacks[s].target_mod][stacks[s].set][stacks[s].way].tag
           = stacks[s].tag

\* the directory entries of that block, before and after the step
TargetEntries(s) == dir[stacks[s].target_mod][stacks[s].set][stacks[s].way]
TargetEntriesAfter(s) ==
    dir'[stacks[s].target_mod][stacks[s].set][stacks[s].way]

\* the sub-blocks of the target block that the requester asked for
Requested(s) ==
    {z \in ZRange(stacks[s].target_mod) :
        /\ stacks[s].tag + z * cache_min_block_size >= stacks[s].addr
        /\ stacks[s].tag + z * cache_min_block_size
               < stacks[s].addr + BlockSize(stacks[s].mod)}

\* the nodes other than the requester that own a sub-block of the block
OtherOwners(s) ==
    {TargetEntries(s)[z].owner : z \in ZRange(stacks[s].target_mod)}
        \ {DIR_ENTRY_OWNER_NONE, NodeIndex(stacks[s].mod)}

\* on a valid block, one read request goes to each owner other than the
\* requester and none goes down
ReadUpdownForwards ==
    (Fired("EV_MOD_READ_REQUEST_UPDOWN") /\ TargetValid(e.st) /\ aborted' = "")
        => LET s == e.st
               tm == stacks[s].target_mod
           IN  /\ Cardinality(NewFrames) = Cardinality(OtherOwners(s))
               /\ {stacks'[n].target_mod : n \in NewFrames}
                      = {NodeMod(tm, o) : o \in OtherOwners(s)}
               /\ \A n \in NewFrames :
                     /\ stacks'[n].mod = tm
                     /\ stacks'[n].ret_stack = s
                     /\ Scheduled(events', "EV_MOD_READ_REQUEST", n)
               /\ stacks'[s].pending = 1 + Cardinality(OtherOwners(s))
               /\ dir' = dir
               /\ LockOf(stacks[s].dir_lock).lock

\* while a forwarded request has not replied, the directory and the lock
\* stay as they are and no reply is scheduled
ReadUpdownWaits ==
    (Fired("EV_MOD_READ_REQUEST_UPDOWN_FINISH") /\ Children(e.st) # {})
        => /\ dir' = dir
           /\ dlock' = dlock
           /\ stacks'[stacks[e.st].ret_stack] = stacks[stacks[e.st].ret_stack]
           /\ ~Scheduled(events', "EV_MOD_READ_REQUEST_REPLY", e.st)

\* when all have replied: the requester becomes sharer of the requested
\* sub-blocks, shared tells whether one of them has another sharer, the
\* requester becomes owner only if not, and the lock is released while the
\* reply is yet to be sent
ReadUpdownCompletes ==
    (Fired("EV_MOD_READ_REQUEST_UPDOWN_FINISH") /\ Children(e.st) = {}
        /\ aborted' = "")
        => LET s == e.st
               idx == NodeIndex(stacks[s].mod)
               lk == stacks[s].dir_lock
               shared == \E z \in Requested(s) :
                             Cardinality(TargetEntriesAfter(s)[z].sharers) > 1
           IN  /\ TargetValid(s)
               /\ \A z \in Requested(s) :
                     /\ TargetEntriesAfter(s)[z].sharers
                            = TargetEntries(s)[z].sharers \cup {idx}
                     /\ (TargetEntriesAfter(s)[z].owner = idx) = ~shared
               /\ stacks'[stacks[s].ret_stack].shared = shared
               /\ LockOf(lk).lock
               /\ ~dlock'[lk[1]][lk[2]][lk[3]].lock
               /\ \E i \in 1 .. Len(events') :
                     events'[i] = Ev("EV_MOD_READ_REQUEST_REPLY", s, 0)
               /\ stacks'[s].msg = 0

\* the reply of a read request is sent after its lock has been released
ReplyAfterUnlock ==
    (Fired("EV_MOD_READ_REQUEST_REPLY") /\ stacks[e.st].dir_lock # NoLock)
        => stacks[e.st].id \notin LockOf(stacks[e.st].dir_lock).holders

\* C28: a read request up-down on a block that is valid at the target
\* forwards a read request to each owner other than the requester, waits
\* for all their replies and only then adds the requester as sharer of the
\* requested sub-blocks; it replies shared exactly when a requested
\* sub-block then has more than one sharer, makes the requester owner only
\* when not shared, and releases the lock of the target before the reply is
\* sent.
ReadUpdownShares ==
    [][/\ ReadUpdownForwards
       /\ ReadUpdownWaits
       /\ ReadUpdownCompletes
       /\ ReplyAfterUnlock]_vars

\* a read request of one L1 found the L2 block owned by the other L1, whose
\* copy the forwarded request has made shared; both are sharers now, the
\* block has no owner, the requester is told so, and the lock is free
\* while the reply waits to be sent
ReadUpdownSharesWitness ==
    \E s \in StackIds :
        /\ stacks[s].used
        /\ Scheduled(events, "EV_MOD_READ_REQUEST_REPLY", s)
        /\ stacks[s].target_mod = "l2" /\ stacks[s].mod \in L1s
        /\ stacks[s].state # "I"
        /\ stacks[stacks[s].ret_stack].shared
        /\ \A z \in Requested(s) :
              /\ TargetEntries(s)[z].sharers = {NodeIndex(m) : m \in L1s}
              /\ TargetEntries(s)[z].owner = DIR_ENTRY_OWNER_NONE
        /\ ~LockOf(stacks[s].dir_lock).lock
        /\ \E m \in L1s \ {stacks[s].mod} :
              HeldState(cache, m, stacks[s].addr) = "S"

(***************************************************************************)
(* Accesses at the L1 caches and at the cache next to the L2               *)
(***************************************************************************)
PeerNext ==
    \/ \E m \in {"l1a", "l2b"}, kind \in {"load", "store"} :
          Issue(m, kind, FirstAddr)
    \/ Load \/ LoadLock \/ LoadAction \/ LoadMiss \/ LoadFinish
    \/ Store \/ StoreLock \/ StoreAction \/ StoreFinish
    \/ FindAndLock \/ FindAndLockAction \/ FindAndLockFinish
    \/ ReadRequest \/ ReadRequestReceive \/ ReadRequestAction
    \/ ReadRequestUpdown \/ ReadRequestUpdownMiss
    \/ ReadRequestUpdownFinish \/ ReadRequestDownup
    \/ ReadRequestDownupFinish \/ ReadRequestReply \/ ReadRequestFinish
    \/ WriteRequest \/ WriteRequestReceive \/ WriteRequestAction
    \/ WriteRequestExclusive \/ WriteRequestUpdown
    \/ WriteRequestUpdownFinish \/ WriteRequestDownup
    \/ WriteRequestReply \/ WriteRequestFinish
    \/ Invalidate \/ InvalidateFinish
    \/ Tick

PeerSpec == Init /\ [][PeerNext]_vars

\* no assertion of the handlers has failed
NoAbort == aborted = ""

(***************************************************************************)
(* Read request down-up                                                    *)
(***************************************************************************)
\* the nodes above the target that own a sub-block of the block
OwnersAbove(s) ==
    {TargetEntries(s)[z].owner : z \in ZRange(stacks[s].target_mod)}
        \ {DIR_ENTRY_OWNER_NONE}

\* one read request goes to each owner above the target
ReadDownupForwards ==
    (Fired("EV_MOD_READ_REQUEST_DOWNUP") /\ aborted' = "")
        => LET s == e.st
               tm == stacks[s].target_mod
           IN  /\ Cardinality(NewFrames) = Cardinality(OwnersAbove(s))
               /\ {stacks'[n].target_mod : n \in NewFrames}
                      = {NodeMod(tm, o) : o \in OwnersAbove(s)}
               /\ \A n \in NewFrames :
                     /\ stacks'[n].mod = tm
                     /\ stacks'[n].ret_stack = s
                     /\ Scheduled(events', "EV_MOD_READ_REQUEST", n)
               /\ stacks'[s].pending = 1 + Cardinality(OwnersAbove(s))
               /\ dir' = dir /\ cache' = cache /\ dlock' = dlock

\* while a forwarded request has not replied nothing else happens
ReadDownupWaits ==
    (Fired("EV_MOD_READ_REQUEST_DOWNUP_FINISH") /\ Children(e.st) # {})
        => /\ dir' = dir /\ cache' = cache /\ dlock' = dlock
           /\ ~Scheduled(events', "EV_MOD_READ_REQUEST_REPLY", e.st)

\* when all have replied: no sub-block has an owner, the block is shared,
\* the lock is released, and the reply carries the block when the block
\* was M or O or an owner above was read
ReadDownupCompletes ==
    (Fired("EV_MOD_READ_REQUEST_DOWNUP_FINISH") /\ Children(e.st) = {}
        /\ aborted' = "")
        => LET s == e.st
               tm == stacks[s].target_mod
               lk == stacks[s].dir_lock
           IN  /\ \A z \in ZRange(tm) :
                     /\ TargetEntriesAfter(s)[z].owner = DIR_ENTRY_OWNER_NONE
                     /\ TargetEntriesAfter(s)[z].sharers
                            = TargetEntries(s)[z].sharers
               /\ TargetValid(s)
               /\ TargetStateAfter(s) = "S"
               /\ cache'[tm][stacks[s].set][stacks[s].way].tag = stacks[s].tag
               /\ LockOf(lk).lock
               /\ ~dlock'[lk[1]][lk[2]][lk[3]].lock
               /\ \E i \in 1 .. Len(events') :
                     events'[i] = Ev("EV_MOD_READ_REQUEST_REPLY", s, 0)
               /\ stacks'[s].reply_size =
                     IF TargetState(s) \in {"M", "O"} \/ OwnersAbove(s) # {}
                     THEN BlockSize(tm) + 8
                     ELSE 8

\* the reply is sent with the size the handler computed
ReadReplySize ==
    (Fired("EV_MOD_READ_REQUEST_REPLY") /\ aborted' = "")
        => stacks'[e.st].msg = stacks[e.st].reply_size

\* C29: a read request down-up forwards the read to every owner of a
\* sub-block above the target; after all replies it sets the owner of
\* every sub-block to none and the block to S, releases the lock and
\* replies, with the block (block size + 8 bytes) if the target block was
\* M or O or an owner above had to be read, and with the 8-byte header
\* otherwise.
ReadDownupDowngrades ==
    [][/\ ReadDownupForwards
       /\ ReadDownupWaits
       /\ ReadDownupCompletes
       /\ ReadReplySize]_vars

\* main memory has read the exclusive block of the L2, whose owner above,
\* an L1 with the block modified, had to be read: the reply carries the
\* block, and both copies are shared with no owner left
ReadDownupDowngradesWitness ==
    \E s \in StackIds :
        /\ stacks[s].used
        /\ Scheduled(events, "EV_MOD_READ_REQUEST_REPLY", s)
        /\ stacks[s].mod = "mm" /\ stacks[s].target_mod = "l2"
        /\ stacks[s].state = "E"
        /\ stacks[s].reply_size = BlockSize("l2") + 8
        /\ TargetState(s) = "S"
        /\ \A z \in ZRange("l2") :
              TargetEntries(s)[z].owner = DIR_ENTRY_OWNER_NONE
        /\ HeldState(cache, "l1a", stacks[s].addr) = "S"
        /\ ~LockOf(stacks[s].dir_lock).lock

(***************************************************************************)
(* C30: invalidation of the upper-level copies of a block                  *)
(***************************************************************************)
\* number of events ev scheduled in the queue q for the frame st
EventsFor(q, ev, st) ==
    Cardinality({i \in 1 .. Len(q) : q[i].ev = ev /\ q[i].st = st})

\* the write requests of the invalidation s that have not yet returned
InvalidateChildren(s) ==
    {n \in Children(s) : stacks[n].ret_event = "EV_MOD_INVALIDATE_FINISH"}

\* frames with an invalidation in progress: the first step has been taken
\* and the frame has not returned
Invalidating ==
    {s \in UsedStacks : \/ EventsFor(events, "EV_MOD_INVALIDATE_FINISH", s) > 0
                        \/ InvalidateChildren(s) # {}}

\* the pending counter of an invalidation in progress is positive and
\* counts its outstanding write requests and its scheduled finish events
PendingCounts ==
    \A s \in Invalidating :
        /\ stacks[s].pending > 0
        /\ stacks[s].pending = Cardinality(InvalidateChildren(s))
               + EventsFor(events, "EV_MOD_INVALIDATE_FINISH", s)

\* the first step clears the sharer bit and the ownership of every upper
\* node but the excepted module, whose bits it leaves as they were
InvalidateClears ==
    Fired("EV_MOD_INVALIDATE") =>
        LET s == e.st
            mod == stacks[s].mod
            set == stacks[s].set
            way == stacks[s].way
        IN  \A z \in ZRange(mod), i \in UpperNodes(mod) :
                LET old == dir[mod][set][way][z]
                    new == dir'[mod][set][way][z]
                IN  IF NodeMod(mod, i) = stacks[s].except_mod
                    THEN /\ (i \in new.sharers) = (i \in old.sharers)
                         /\ (new.owner = i) = (old.owner = i)
                    ELSE i \notin new.sharers /\ new.owner # i

\* the first step sends one write request per cleared sharer and sub-block
\* and counts them, with one more for its own finish event
InvalidateSends ==
    Fired("EV_MOD_INVALIDATE") =>
        LET s == e.st
            mod == stacks[s].mod
            set == stacks[s].set
            way == stacks[s].way
            Sent(z, i) ==
                {n \in NewFrames :
                    /\ stacks'[n].target_mod = NodeMod(mod, i)
                    /\ stacks'[n].addr = cache[mod][set][way].tag
                                             + z * cache_min_block_size
                    /\ stacks'[n].ret_stack = s
                    /\ stacks'[n].ret_event = "EV_MOD_INVALIDATE_FINISH"
                    /\ EventsFor(events', "EV_MOD_WRITE_REQUEST", n) = 1}
        IN  /\ \A z \in ZRange(mod), i \in UpperNodes(mod) :
                   Cardinality(Sent(z, i)) =
                       IF /\ i \in dir[mod][set][way][z].sharers
                          /\ NodeMod(mod, i) # stacks[s].except_mod
                       THEN 1 ELSE 0
            /\ NewFrames = UNION {Sent(z, i) : z \in ZRange(mod),
                                               i \in UpperNodes(mod)}
            /\ stacks'[s].pending = 1 + Cardinality(NewFrames)
            /\ EventsFor(events', "EV_MOD_INVALIDATE_FINISH", s) = 1

\* a finish step takes one from the counter; the step that brings it to 0
\* returns to the caller, with no write request and no finish event left
InvalidateReturns ==
    Fired("EV_MOD_INVALIDATE_FINISH") =>
        LET s == e.st
            parent == stacks[s].ret_stack
        IN  IF stacks[s].pending = 1
            THEN /\ InvalidateChildren(s) = {}
                 /\ EventsFor(Consume, "EV_MOD_INVALIDATE_FINISH", s) = 0
                 /\ ~stacks'[s].used
                 /\ parent # NoStack
                 /\ EventsFor(events', stacks[s].ret_event, parent) =
                        EventsFor(Consume, stacks[s].ret_event, parent) + 1
            ELSE /\ stacks[s].pending > 1
                 /\ stacks'[s] = [stacks[s] EXCEPT !.pending = @ - 1]
                 /\ Len(events') = Len(Consume)

FairSpec == Spec /\ WF_vars(Next)

\* frames on which an invalidation has been scheduled and has not returned
InvalidateStarted ==
    Invalidating \cup
        {s \in UsedStacks : EventsFor(events, "EV_MOD_INVALIDATE", s) > 0}

\* under the fair event kernel every invalidation that has started returns,
\* unless the simulator aborts first
InvalidateEventuallyReturns ==
    (InvalidateStarted # {}) ~> (InvalidateStarted = {} \/ aborted # "")

(***************************************************************************)
(* C31: what an eviction sends down and what it does to its destination    *)
(***************************************************************************)
\* the victim of the eviction s and the block it is written to below
Victim(s) == cache[stacks[s].mod][stacks[s].src_set][stacks[s].src_way]
Destination(s) == cache[stacks[s].target_mod][stacks[s].set][stacks[s].way]
DestinationAfter(s) == cache'[stacks[s].target_mod][stacks[s].set][stacks[s].way]

\* a victim in M or O goes down as a writeback of block size + 8 bytes, a
\* victim in E or S as a message of 8 bytes
EvictSends ==
    (Fired("EV_MOD_EVICT_ACTION") /\ Victim(e.st).state # "I") =>
        LET s == e.st
            dirty == Victim(s).state \in {"M", "O"}
            size == IF dirty THEN BlockSize(stacks[s].mod) + 8 ELSE 8
        IN  /\ stacks'[s].msg = size
            /\ stacks'[s].writeback = dirty
            /\ \E i \in 1 .. Len(events') :
                   events'[i] = Ev("EV_MOD_EVICT_RECEIVE", s, NetLatency(size))
            /\ EventsFor(events', "EV_MOD_EVICT_RECEIVE", s) = 1

\* after the lock and the invalidation of the other sharers, a destination
\* in O or S sends a write request one level further down and a destination
\* in M or E sends none
EvictAsksBelow ==
    Fired("EV_MOD_EVICT_WRITEBACK_EXCLUSIVE") =>
        LET s == e.st
            tm == stacks[s].target_mod
        IN  /\ stacks[s].writeback
            /\ stacks[s].dir_lock = <<tm, stacks[s].set, stacks[s].way>>
            /\ dlock[tm][stacks[s].set][stacks[s].way].lock
            /\ DestinationAfter(s) = Destination(s)
            /\ IF Destination(s).state \in {"O", "S"}
               THEN /\ Cardinality(NewFrames) = 1
                    /\ \A n \in NewFrames :
                          /\ stacks'[n].mod = tm
                          /\ stacks'[n].target_mod = LowMod(tm)
                          /\ stacks'[n].addr = Destination(s).tag
                          /\ stacks'[n].ret_stack = s
                          /\ stacks'[n].ret_event = "EV_MOD_EVICT_WRITEBACK_FINISH"
                          /\ EventsFor(events', "EV_MOD_WRITE_REQUEST", n) = 1
                    /\ EventsFor(events', "EV_MOD_EVICT_WRITEBACK_FINISH", s) = 0
               ELSE /\ NewFrames = {}
                    /\ Destination(s).state \in {"M", "E"}
                    /\ EventsFor(events', "EV_MOD_EVICT_WRITEBACK_FINISH", s) = 1

\* the destination of a writeback becomes M unless the write request below
\* failed, and then it is left as it was
EvictPromotes ==
    Fired("EV_MOD_EVICT_WRITEBACK_FINISH") =>
        LET s == e.st
        IN  /\ stacks[s].writeback
            /\ IF stacks[s].err
               THEN cache' = cache
               ELSE DestinationAfter(s).state = "M"

\* an eviction that is no writeback leaves its destination in the state
\* the find-and-lock found it in
EvictKeeps ==
    \A ev \in {"EV_MOD_EVICT_WRITEBACK", "EV_MOD_EVICT_PROCESS"} :
        (Fired(ev) /\ ~stacks[e.st].writeback /\ ~stacks[e.st].err) =>
            /\ Destination(e.st).state = stacks[e.st].state
            /\ cache' = cache
            /\ NewFrames = {}

StoredBlock(state) ==
    [tag |-> FirstAddr, state |-> state, transient_tag |-> FirstAddr]

StoredEntry == [sharers |-> {1}, owner |-> 1]

\* the caches, directories and LRU lists once the store has returned
StoredOnce ==
    /\ cache = [m \in Mods |-> [set \in Sets(m) |-> [w \in Ways(m) |->
                   IF m = "l1a" THEN StoredBlock("M")
                   ELSE IF m = "l2" \/ (m = "mm" /\ w = 1) THEN StoredBlock("E")
                   ELSE [tag |-> 0, state |-> "I", transient_tag |-> 0]]]]
    /\ lru = [m \in Mods |-> [set \in Sets(m) |->
                   IF m = "mm" THEN <<1, 0>> ELSE <<0>>]]
    /\ dir = [m \in Mods |-> [set \in Sets(m) |-> [w \in Ways(m) |->
                   [z \in ZRange(m) |->
                       IF m = "l2" \/ (m = "mm" /\ w = 1) THEN StoredEntry
                       ELSE [sharers |-> {}, owner |-> DIR_ENTRY_OWNER_NONE]]]]]
    /\ dlock = [m \in Mods |-> [set \in Sets(m) |-> [w \in Ways(m) |->
                   [lock |-> FALSE, holders |-> {}, queue |-> <<>>]]]]
    /\ stacks = [s \in StackIds |-> FreeStack]
    /\ events = <<>>
    /\ counters = [m \in Mods |-> [read_retries |-> 0, write_retries |-> 0]]
    /\ access = [m \in Mods |-> <<>>]
    /\ aborted = ""

StoredInit == StoredOnce /\ issued = 0 /\ ContextInit /\ ClrtInit

StoredSpec == StoredInit /\ [][Next]_vars

(***************************************************************************)
(* C32: an eviction at the lower module, with and without error            *)
(***************************************************************************)
\* the lower module clears the evicting node as sharer and owner in the
\* sub-blocks the evicted block covers, in no other entry, and releases
\* the lock of the destination before it replies
EvictProcessClears ==
    Fired("EV_MOD_EVICT_PROCESS") =>
        LET s == e.st
            mod == stacks[s].mod
            tm == stacks[s].target_mod
            lk == stacks[s].dir_lock
            node == NodeIndex(mod)
            Covered(z) ==
                LET dir_entry_tag == stacks[s].tag + z * cache_min_block_size
                IN  /\ dir_entry_tag >= stacks[s].src_tag
                    /\ dir_entry_tag < stacks[s].src_tag + BlockSize(mod)
        IN  /\ ~stacks[s].err
            /\ lk = <<tm, stacks[s].set, stacks[s].way>>
            /\ \A m \in Mods : \A set \in Sets(m), w \in Ways(m), z \in ZRange(m) :
                  LET old == dir[m][set][w][z]
                      new == dir'[m][set][w][z]
                  IN  IF <<m, set, w>> = lk /\ Covered(z)
                      THEN /\ new.sharers = old.sharers \ {node}
                           /\ new.owner = IF old.owner = node
                                          THEN DIR_ENTRY_OWNER_NONE
                                          ELSE old.owner
                      ELSE new = old
            /\ dlock[lk[1]][lk[2]][lk[3]].lock
            /\ stacks[s].id \in dlock[lk[1]][lk[2]][lk[3]].holders
            /\ ~dlock'[lk[1]][lk[2]][lk[3]].lock
            /\ stacks[s].id \notin dlock'[lk[1]][lk[2]][lk[3]].holders
            /\ EventsFor(events, "EV_MOD_EVICT_REPLY", s) = 0
            /\ EventsFor(events', "EV_MOD_EVICT_REPLY", s) = 1

\* the evicting cache makes its victim invalid exactly when the eviction
\* returned no error; after an error the victim keeps its tag and state
EvictReplyInvalidates ==
    Fired("EV_MOD_EVICT_REPLY_RECEIVE") =>
        LET s == e.st
            after == cache'[stacks[s].mod][stacks[s].src_set][stacks[s].src_way]
        IN  /\ Victim(s).state # "I"
            /\ (after.state = "I") = ~stacks[s].err
            /\ stacks[s].err =>
                  after.tag = Victim(s).tag /\ after.state = Victim(s).state

\* once the eviction has seen an error no step of it changes a directory,
\* and it holds no lock of the lower module when it replies
EvictErrorKeeps ==
    \A ev \in {"EV_MOD_EVICT_WRITEBACK", "EV_MOD_EVICT_WRITEBACK_FINISH",
               "EV_MOD_EVICT_REPLY", "EV_MOD_EVICT_REPLY_RECEIVE",
               "EV_MOD_EVICT_FINISH"} :
        (Fired(ev) /\ stacks[e.st].err) =>
            LET s == e.st
                parent == stacks[s].ret_stack
                low == stacks[s].target_mod
            IN  /\ dir' = dir
                /\ ev # "EV_MOD_EVICT_WRITEBACK" => stacks[parent].err
                /\ ev = "EV_MOD_EVICT_WRITEBACK" => stacks'[parent].err
                /\ ev = "EV_MOD_EVICT_WRITEBACK_FINISH" => stacks'[parent].err
                /\ stacks[s].ret_event = "EV_MOD_FIND_AND_LOCK_FINISH"
                /\ ev \in {"EV_MOD_EVICT_REPLY", "EV_MOD_EVICT_REPLY_RECEIVE",
                           "EV_MOD_EVICT_FINISH"} =>
                      \A set \in Sets(low), w \in Ways(low) :
                          stacks[s].id \notin dlock[low][set][w].holders
                /\ ev = "EV_MOD_EVICT_FINISH" =>
                      /\ EventsFor(events', "EV_MOD_FIND_AND_LOCK_FINISH", parent) = 1
                      /\ Victim(s).state # "I"

\* the find-and-lock that gets the error releases the lock of the victim
\* and returns err = 1 to its caller
FindAndLockReturnsError ==
    (Fired("EV_MOD_FIND_AND_LOCK_FINISH") /\ stacks[e.st].err) =>
        LET s == e.st
            lk == stacks[s].dir_lock
            caller == stacks[s].ret_stack
        IN  /\ stacks[s].eviction
            /\ lk = <<stacks[s].mod, stacks[s].set, stacks[s].way>>
            /\ dlock[lk[1]][lk[2]][lk[3]].lock
            /\ stacks[s].id \in dlock[lk[1]][lk[2]][lk[3]].holders
            /\ ~dlock'[lk[1]][lk[2]][lk[3]].lock
            /\ stacks[s].id \notin dlock'[lk[1]][lk[2]][lk[3]].holders
            /\ cache' = cache
            /\ cache[lk[1]][lk[2]][lk[3]].state # "I"
            /\ stacks'[caller].err
            /\ ~stacks'[s].used
            /\ EventsFor(events', stacks[s].ret_event, caller) =
                   EventsFor(Consume, stacks[s].ret_event, caller) + 1

DownUp(s) == LowMod(stacks[s].target_mod) = stacks[s].mod

\* none of the assertions on a down-up request has failed
DownupAssertions ==
    aborted \notin {"find_and_lock: assert(!stack->blocking)",
                    "read_request_action: assert(up-down)",
                    "write_request_action: assert(up-down)",
                    "read_request_downup: assert(state != invalid)",
                    "write_request_downup: assert(state != invalid)"}

\* the find-and-lock of a down-up request is the blocking one: it never
\* misses and never returns an error; it waits while the block is locked,
\* also when the holder of the lock is still bringing the block, and the
\* block is valid when the lock is granted
DownupFinds ==
    Fired("EV_MOD_FIND_AND_LOCK") =>
        LET s == e.st
            caller == stacks[s].ret_stack
            mod == stacks[s].mod
            tag == Tag(mod, stacks[s].addr)
            set == SetOf(mod, tag)
            valid == {w \in Ways(mod) : /\ cache[mod][set][w].tag = tag
                                        /\ cache[mod][set][w].state # "I"}
            brought == {w \in Ways(mod) : /\ cache[mod][set][w].transient_tag = tag
                                          /\ dlock[mod][set][w].lock}
            granted == EventsFor(events', "EV_MOD_FIND_AND_LOCK_ACTION", s) = 1
        IN  /\ stacks[s].blocking = DownUp(caller)
            /\ stacks[s].blocking =>
                  /\ valid \cup brought # {}
                  /\ aborted' = ""
                  /\ stacks'[s].used
                  /\ ~stacks'[caller].err
                  /\ granted => valid # {} /\ stacks'[s].state # "I"
                  /\ ~granted =>
                        \E w \in valid \cup brought :
                            /\ dlock[mod][set][w].lock
                            /\ s \in {dlock'[mod][set][w].queue[k] :
                                          k \in 1 .. Len(dlock'[mod][set][w].queue)}

\* a down-up request that has its lock sees a valid state and no error
DownupValid ==
    \A ev \in {"EV_MOD_READ_REQUEST_ACTION", "EV_MOD_WRITE_REQUEST_ACTION",
               "EV_MOD_READ_REQUEST_DOWNUP", "EV_MOD_WRITE_REQUEST_DOWNUP"} :
        (Fired(ev) /\ DownUp(e.st)) =>
            LET s == e.st
                lk == stacks[s].dir_lock
            IN  /\ ~stacks[s].err
                /\ stacks[s].state # "I"
                /\ lk = <<stacks[s].target_mod, stacks[s].set, stacks[s].way>>
                /\ cache[lk[1]][lk[2]][lk[3]].state = stacks[s].state
                /\ cache[lk[1]][lk[2]][lk[3]].tag = stacks[s].tag

\* C33: a read or write request sent to a cache above uses a blocking
\* find-and-lock that always finds the block valid there: it never misses,
\* never returns a lock error and never sees state I, so the assertions on
\* a blocking miss, on the error of a down-up request and on an invalid
\* state in the down-up handlers never fail
DownupFindsBlock ==
    /\ []DownupAssertions
    /\ [][DownupFinds /\ DownupValid]_vars

\* a down-up request that had to wait for the lock of the block it asks
\* for has been granted it
DownupFindsBlockWitness ==
    /\ Ready("EV_MOD_WRITE_REQUEST_DOWNUP")
    /\ DownUp(e.st)
    /\ stacks[e.st].state = "M"

(***************************************************************************)
(* Runs of the three-level hierarchy: accesses at the L1 above the L2 and  *)
(* at the L1 above its peer l2b, to one address, so that no block is       *)
(* evicted                                                                 *)
(***************************************************************************)
DeepNext ==
    \/ \E m \in {"l1a", "l1c"}, kind \in {"load", "store"} :
          Issue(m, kind, FirstAddr)
    \/ Load \/ LoadLock \/ LoadAction \/ LoadMiss \/ LoadFinish
    \/ Store \/ StoreLock \/ StoreAction \/ StoreFinish
    \/ FindAndLock \/ FindAndLockAction \/ FindAndLockFinish
    \/ ReadRequest \/ ReadRequestReceive \/ ReadRequestAction
    \/ ReadRequestUpdown \/ ReadRequestUpdownMiss
    \/ ReadRequestUpdownFinish \/ ReadRequestDownup
    \/ ReadRequestDownupFinish \/ ReadRequestReply \/ ReadRequestFinish
    \/ WriteRequest \/ WriteRequestReceive \/ WriteRequestAction
    \/ WriteRequestExclusive \/ WriteRequestUpdown
    \/ WriteRequestUpdownFinish \/ WriteRequestDownup
    \/ WriteRequestReply \/ WriteRequestFinish
    \/ Invalidate \/ InvalidateFinish
    \/ Tick

DeepSpec == Init /\ [][DeepNext]_vars

(***************************************************************************)
(* C34: single writer, multiple readers                                    *)
(***************************************************************************)
\* distance of a module from main memory
Level(m) == IF LowMod(m) = NoMod THEN 0
            ELSE IF LowMod(LowMod(m)) = NoMod THEN 1 ELSE 2

\* the module holds the block of the address in one of the states
Holds(m, addr, states) ==
    \E w \in Ways(m) :
        /\ cache[m][SetOf(m, Tag(m, addr))][w].tag = Tag(m, addr)
        /\ cache[m][SetOf(m, Tag(m, addr))][w].state \in states

\* C34: when a cache holds a block in M or E, no other cache of its level
\* holds that block in a valid state
SingleWriter ==
    \A addr \in Addrs : \A m \in Mods, p \in Mods :
        (/\ m # p
         /\ Level(m) = Level(p)
         /\ Holds(m, addr, {"M", "E"}))
            => ~Holds(p, addr, {"M", "O", "E", "S"})

(***************************************************************************)
(* C35: directory locks are released once, by their holder                 *)
(***************************************************************************)
\* the step is one at which the handler calls dir_lock_unlock
Unlocking ==
    \/ Fired("EV_MOD_LOAD_MISS") /\ stacks[e.st].err
    \/ Fired("EV_MOD_LOAD_FINISH")
    \/ Fired("EV_MOD_STORE_FINISH")
    \/ Fired("EV_MOD_FIND_AND_LOCK_FINISH") /\ stacks[e.st].err
    \/ Fired("EV_MOD_EVICT_WRITEBACK_FINISH") /\ stacks[e.st].err
    \/ Fired("EV_MOD_EVICT_PROCESS")
    \/ Fired("EV_MOD_READ_REQUEST_UPDOWN_MISS") /\ stacks[e.st].err
    \/ Fired("EV_MOD_READ_REQUEST_UPDOWN_FINISH") /\ stacks[e.st].pending = 1
    \/ Fired("EV_MOD_READ_REQUEST_DOWNUP_FINISH") /\ stacks[e.st].pending = 1
    \/ Fired("EV_MOD_WRITE_REQUEST_UPDOWN_FINISH")
    \/ Fired("EV_MOD_WRITE_REQUEST_DOWNUP")

\* no access is in flight
NoAccess == events = <<>> /\ \A s \in StackIds : ~stacks[s].used

\* the locks the accesses hold
HeldLocks(dl) == {b \in Blocks : dl[b[1]][b[2]][b[3]].lock}

\* a release is the release of a lock its access holds, which is free
\* afterwards
ReleasesHeld ==
    (Unlocking /\ aborted' = "")
        => LET lk == stacks[e.st].dir_lock
           IN  /\ lk # NoLock
               /\ lk \in HeldLocks(dlock)
               /\ stacks[e.st].id \in LockOf(lk).holders
               /\ HeldLocks(dlock') = HeldLocks(dlock) \ {lk}
               /\ dlock'[lk[1]][lk[2]][lk[3]].holders = {}

\* no other step releases a lock
ReleasedOnlyByUnlock ==
    ~Unlocking
        => \A b \in Blocks :
              /\ LockOf(b).lock => dlock'[b[1]][b[2]][b[3]].lock
              /\ LockOf(b).holders \subseteq dlock'[b[1]][b[2]][b[3]].holders

\* every lock is held by an access in flight
HeldByAccess ==
    \A b \in HeldLocks(dlock) : \A id \in LockOf(b).holders :
        \E s \in StackIds : TopLevel(s) /\ stacks[s].id = id

\* C35: a directory lock is released only by the access that holds it, at
\* the unlock of the path it took, and is free afterwards; no other step
\* releases a lock; every held lock is held by an access in flight, so no
\* lock is held when no access is in flight.
LockReleasedOnce ==
    /\ [](aborted = "" => (HeldByAccess /\ (NoAccess => HeldLocks(dlock) = {})))
    /\ [][ReleasesHeld /\ ReleasedOnlyByUnlock]_vars

\* all accesses have returned, one of them after a retry, and no lock is
\* held
LockReleasedOnceWitness ==
    /\ NoAccess
    /\ issued = MaxAccesses
    /\ HeldLocks(dlock) = {}
    /\ \E m \in Mods : counters[m].read_retries + counters[m].write_retries > 0

(***************************************************************************)
(* C37: state O is never installed                                         *)
(***************************************************************************)
ReachedStates == {"M", "E", "S", "I"}

\* C37: from a hierarchy in which every block is I, every block is in M,
\* E, S or I, and so is the state every find-and-lock hands to its caller:
\* the branches that test a block for state O are never taken.
NeverOwned ==
    /\ \A b \in Blocks : BlockOf(b).state \in ReachedStates
    /\ \A s \in StackIds : stacks[s].state \in ReachedStates

\* a down-up read request that found the block modified has left it shared
NeverOwnedWitness ==
    \E s \in StackIds :
        /\ stacks[s].used
        /\ DownUp(s)
        /\ Scheduled(events, "EV_MOD_READ_REQUEST_REPLY", s)
        /\ stacks[s].state = "M"
        /\ HeldState(cache, stacks[s].target_mod, stacks[s].tag) = "S"

(***************************************************************************)
(* C40: the access list of a module                                        *)
(***************************************************************************)
\* the number of times frame s is in the list q
RECURSIVE Occurrences(_, _)
Occurrences(q, s) ==
    IF q = <<>> THEN 0
    ELSE (IF Head(q) = s THEN 1 ELSE 0) + Occurrences(Tail(q), s)

\* C40: no access is twice in the access list of its module, and the
\* access lists are empty when all accesses have completed
AccessListedOnce ==
    /\ \A m \in Mods : \A s \in StackIds : Occurrences(access[m], s) <= 1
    /\ NoAccess => \A m \in Mods : access[m] = <<>>

(***************************************************************************)
(* OpenCL runtime: events (tools/libm2s-clrt/event.c)                      *)
(***************************************************************************)
\* the thread returns from the call it is in
ClReturn(th, code) == [th EXCEPT !.pc = "", !.ret = code]

\* the thread is in a call of the runtime
InCall(t) == cl_thread[t].pc # ""

\* one step of clrt_event_set_status(event, status) by thread t, which is
\* th_after when the function has returned: lock the mutex of the event,
\* write the status and wake up the waiters if it is CL_COMPLETE, unlock
clrt_event_set_status(t, ev, status, th_after) ==
    /\ cl_thread[t].pc \in {"set_lock", "set_status", "set_unlock"}
    /\ UNCHANGED cl_queue
    /\ CASE cl_thread[t].pc = "set_lock" ->
              /\ cl_event[ev].mutex = NoThread
              /\ cl_event' = [cl_event EXCEPT ![ev].mutex = t]
              /\ cl_thread' = [cl_thread EXCEPT ![t].pc = "set_status"]
         [] cl_thread[t].pc = "set_status" ->
              /\ cl_event' = [cl_event EXCEPT
                     ![ev].status = status,
                     ![ev].cond = IF status = CL_COMPLETE THEN {} ELSE @]
              /\ cl_thread' = [cl_thread EXCEPT ![t].pc = "set_unlock"]
         [] cl_thread[t].pc = "set_unlock" ->
              /\ cl_event' = [cl_event EXCEPT ![ev].mutex = NoThread]
              /\ cl_thread' = [cl_thread EXCEPT ![t] = th_after]

\* clCreateUserEvent with a valid context: the fields it assigns; the
\* queue field of the allocated memory is not assigned
clCreateUserEvent ==
    /\ ~cl_event[UserEvent].valid
    /\ \E q \in {"NULL", "garbage"} :
          cl_event' = [cl_event EXCEPT ![UserEvent] =
              [valid |-> TRUE, status |-> CL_QUEUED, changed |-> FALSE,
               queue |-> q, mutex |-> NoThread, cond |-> {}]]
    /\ UNCHANGED <<cl_queue, cl_thread, mvars, svars>>

\* a host thread calls clSetUserEventStatus(event, execution_status) with
\* the user event
SetUserEventCall(t, execution_status) ==
    /\ ~InCall(t)
    /\ cl_thread[t].calls < MaxSets
    /\ cl_event[UserEvent].valid
    /\ cl_thread' = [cl_thread EXCEPT ![t] =
           [fn |-> "clSetUserEventStatus", pc |-> "verify", list |-> <<>>,
            i |-> 0, event |-> UserEvent, arg |-> execution_status,
            ret |-> "", calls |-> @.calls + 1]]
    /\ UNCHANGED <<cl_event, cl_queue, mvars, svars>>

\* one step of clSetUserEventStatus: each test reads one field of the event
clSetUserEventStatus(t) ==
    /\ cl_thread[t].fn = "clSetUserEventStatus"
    /\ InCall(t)
    /\ UNCHANGED <<mvars, svars>>
    /\ LET th == cl_thread[t]
           event == cl_event[th.event]
       IN  IF th.pc = "verify"
           THEN /\ cl_thread' = [cl_thread EXCEPT ![t] =
                       IF ~event.valid \/ event.queue # "NULL"
                       THEN ClReturn(th, "CL_INVALID_EVENT")
                       ELSE [th EXCEPT !.pc = "status"]]
                /\ UNCHANGED <<cl_event, cl_queue>>
           ELSE IF th.pc = "status"
           THEN /\ cl_thread' = [cl_thread EXCEPT ![t] =
                       IF event.status > CL_COMPLETE
                       THEN ClReturn(th, "CL_INVALID_VALUE")
                       ELSE [th EXCEPT !.pc = "changed"]]
                /\ UNCHANGED <<cl_event, cl_queue>>
           ELSE IF th.pc = "changed"
           THEN /\ cl_thread' = [cl_thread EXCEPT ![t] =
                       IF event.changed
                       THEN ClReturn(th, "CL_INVALID_OPERATION")
                       ELSE IF th.arg <= CL_COMPLETE
                       THEN [th EXCEPT !.pc = "set_lock"]
                       ELSE ClReturn(th, "CL_INVALID_VALUE")]
                /\ UNCHANGED <<cl_event, cl_queue>>
           ELSE IF th.pc = "mark"
           THEN /\ cl_event' = [cl_event EXCEPT ![th.event].changed = TRUE]
                /\ cl_thread' = [cl_thread EXCEPT ![t] = ClReturn(th, "CL_SUCCESS")]
                /\ UNCHANGED cl_queue
           ELSE clrt_event_set_status(t, th.event, th.arg, [th EXCEPT !.pc = "mark"])

\* host threads create a user event and set its status
ClSetNext ==
    \/ clCreateUserEvent
    \/ \E t \in ClThreads, x \in ExecStatuses : SetUserEventCall(t, x)
    \/ \E t \in ClThreads : clSetUserEventStatus(t)

ClSetSpec == Init /\ [][ClSetNext]_vars

\* thread t has returned from clSetUserEventStatus on a valid user event
SetReturned(t) ==
    /\ cl_thread[t].fn = "clSetUserEventStatus"
    /\ ~InCall(t)
    /\ cl_event[UserEvent].queue = "NULL"

\* C38: on a valid user event, a call of clSetUserEventStatus with
\* execution_status <= CL_COMPLETE returns CL_SUCCESS, or
\* CL_INVALID_OPERATION when an earlier call has set the status, which then
\* is a final one; a call with execution_status > CL_COMPLETE returns
\* CL_INVALID_VALUE.
UserEventSetOnce ==
    \A t \in ClThreads :
        SetReturned(t)
            => IF cl_thread[t].arg > CL_COMPLETE
               THEN cl_thread[t].ret = "CL_INVALID_VALUE"
               ELSE /\ cl_thread[t].ret \in {"CL_SUCCESS", "CL_INVALID_OPERATION"}
                    /\ cl_event[UserEvent].changed
                    /\ cl_event[UserEvent].status <= CL_COMPLETE

\* what the function does with a user event: the status stays CL_QUEUED and
\* every call returns CL_INVALID_VALUE
UserEventNeverSet ==
    /\ cl_event[UserEvent].status = CL_QUEUED
    /\ ~cl_event[UserEvent].changed
    /\ \A t \in ClThreads :
          SetReturned(t) => cl_thread[t].ret = "CL_INVALID_VALUE"

(***************************************************************************)
(* OpenCL runtime: waiting for events                                      *)
(***************************************************************************)
\* clrt_event_create(queue): an event of the command queue
QueueEvent ==
    [valid |-> TRUE, status |-> CL_QUEUED, changed |-> FALSE,
     queue |-> "queue", mutex |-> NoThread, cond |-> {}]

\* one step of clrt_wait(event) by thread t, which is th_after when the
\* function has returned
clrt_wait(t, ev, th_after) ==
    /\ cl_thread[t].pc \in {"wait_queue", "wait_start", "wait_lock",
                            "wait_test", "wait_cond", "wait_done"}
    /\ LET th == cl_thread[t]
       IN  CASE th.pc = "wait_queue" ->
                  \* if (event->queue) pthread_mutex_lock(&event->queue->lock)
                  IF cl_event[ev].queue = "NULL"
                  THEN /\ cl_thread' = [cl_thread EXCEPT ![t].pc = "wait_lock"]
                       /\ UNCHANGED <<cl_event, cl_queue>>
                  ELSE /\ cl_queue.lock = NoThread
                       /\ cl_queue' = [cl_queue EXCEPT !.lock = t]
                       /\ cl_thread' = [cl_thread EXCEPT ![t].pc = "wait_start"]
                       /\ UNCHANGED cl_event
             [] th.pc = "wait_start" ->
                  \* start the processing of a queue that has items, unlock
                  /\ cl_queue' = [cl_queue EXCEPT
                         !.process = IF cl_queue.head # <<>> /\ cl_queue.process = 0
                                     THEN 1 ELSE @,
                         !.lock = NoThread]
                  /\ cl_thread' = [cl_thread EXCEPT ![t].pc = "wait_lock"]
                  /\ UNCHANGED cl_event
             [] th.pc = "wait_lock" ->
                  /\ cl_event[ev].mutex = NoThread
                  /\ cl_event' = [cl_event EXCEPT ![ev].mutex = t]
                  /\ cl_thread' = [cl_thread EXCEPT ![t].pc = "wait_test"]
                  /\ UNCHANGED cl_queue
             [] th.pc = "wait_test" ->
                  \* while (event->status != CL_COMPLETE) pthread_cond_wait
                  IF cl_event[ev].status # CL_COMPLETE
                  THEN /\ cl_event' = [cl_event EXCEPT ![ev].mutex = NoThread,
                                                       ![ev].cond = @ \cup {t}]
                       /\ cl_thread' = [cl_thread EXCEPT ![t].pc = "wait_cond"]
                       /\ UNCHANGED cl_queue
                  ELSE /\ cl_thread' = [cl_thread EXCEPT ![t].pc = "wait_done"]
                       /\ UNCHANGED <<cl_event, cl_queue>>
             [] th.pc = "wait_cond" ->
                  \* woken up by the broadcast: take the mutex again
                  /\ t \notin cl_event[ev].cond
                  /\ cl_event[ev].mutex = NoThread
                  /\ cl_event' = [cl_event EXCEPT ![ev].mutex = t]
                  /\ cl_thread' = [cl_thread EXCEPT ![t].pc = "wait_test"]
                  /\ UNCHANGED cl_queue
             [] th.pc = "wait_done" ->
                  /\ cl_event' = [cl_event EXCEPT ![ev].mutex = NoThread]
                  /\ cl_thread' = [cl_thread EXCEPT ![t] = th_after]
                  /\ UNCHANGED cl_queue

\* the application enqueues a command with event ev: clrt_event_create and
\* clrt_command_queue_enqueue
EnqueueCommand(ev) ==
    /\ ~cl_event[ev].valid
    /\ cl_queue.lock = NoThread
    /\ cl_event' = [cl_event EXCEPT ![ev] = QueueEvent]
    /\ cl_queue' = [cl_queue EXCEPT !.head = Append(@, ev)]
    /\ UNCHANGED <<cl_thread, mvars, svars>>

\* the event lists a host thread passes to clWaitForEvents
WaitLists == {<<>>, <<"e1", "e2">>}

\* a host thread calls clWaitForEvents(num_events, event_list)
WaitForEventsCall(t, event_list) ==
    /\ ~InCall(t)
    /\ cl_thread[t].calls < MaxSets
    /\ cl_thread' = [cl_thread EXCEPT ![t] =
           [fn |-> "clWaitForEvents", pc |-> "check", list |-> event_list,
            i |-> 0, event |-> "", arg |-> 0, ret |-> "",
            calls |-> @.calls + 1]]
    /\ UNCHANGED <<cl_event, cl_queue, mvars, svars>>

\* one step of clWaitForEvents: the checks of the arguments, then
\* clrt_wait for each event of the list in turn
clWaitForEvents(t) ==
    /\ cl_thread[t].fn = "clWaitForEvents"
    /\ InCall(t)
    /\ UNCHANGED <<mvars, svars>>
    /\ LET th == cl_thread[t]
       IN  IF th.pc = "check"
           THEN /\ cl_thread' = [cl_thread EXCEPT ![t] =
                       IF th.list = <<>>
                       THEN ClReturn(th, "CL_INVALID_VALUE")
                       ELSE IF \E k \in 1 .. Len(th.list) :
                                   ~cl_event[th.list[k]].valid
                       THEN ClReturn(th, "CL_INVALID_EVENT")
                       ELSE [th EXCEPT !.i = 1, !.event = th.list[1],
                                       !.pc = "wait_queue"]]
                /\ UNCHANGED <<cl_event, cl_queue>>
           ELSE clrt_wait(t, th.event,
                    IF th.i < Len(th.list)
                    THEN [th EXCEPT !.i = th.i + 1, !.event = th.list[th.i + 1],
                                    !.pc = "wait_queue"]
                    ELSE ClReturn(th, "CL_SUCCESS"))

\* a host thread calls clFinish(command_queue)
FinishCall(t) ==
    /\ ~InCall(t)
    /\ cl_thread[t].calls < MaxSets
    /\ ~cl_event[FinishEvent].valid
    /\ \A u \in ClThreads : ~(InCall(u) /\ cl_thread[u].fn = "clFinish")
    /\ cl_thread' = [cl_thread EXCEPT ![t] =
           [fn |-> "clFinish", pc |-> "create", list |-> <<FinishEvent>>,
            i |-> 1, event |-> FinishEvent, arg |-> 0, ret |-> "",
            calls |-> @.calls + 1]]
    /\ UNCHANGED <<cl_event, cl_queue, mvars, svars>>

\* one step of clFinish: create an event, enqueue an item that does
\* nothing, wait for the event and release it
clFinish(t) ==
    /\ cl_thread[t].fn = "clFinish"
    /\ InCall(t)
    /\ UNCHANGED <<mvars, svars>>
    /\ LET th == cl_thread[t]
       IN  IF th.pc = "create"
           THEN /\ cl_event' = [cl_event EXCEPT ![th.event] = QueueEvent]
                /\ cl_thread' = [cl_thread EXCEPT ![t].pc = "enqueue"]
                /\ UNCHANGED cl_queue
           ELSE IF th.pc = "enqueue"
           THEN /\ cl_queue.lock = NoThread
                /\ cl_queue' = [cl_queue EXCEPT !.head = Append(@, th.event)]
                /\ cl_thread' = [cl_thread EXCEPT ![t].pc = "wait_queue"]
                /\ UNCHANGED cl_event
           ELSE IF th.pc = "release"
           THEN /\ cl_event' = [cl_event EXCEPT ![th.event] = NoEvent]
                /\ cl_thread' = [cl_thread EXCEPT ![t] = ClReturn(th, "CL_SUCCESS")]
                /\ UNCHANGED cl_queue
           ELSE clrt_wait(t, th.event, [th EXCEPT !.pc = "release"])

\* the final statuses the thread of the command queue gives to the event
\* of an item: CL_COMPLETE or an error code
FinalStatuses == {status \in ExecStatuses : status <= CL_COMPLETE}

\* the thread of the command queue, once the processing has been started,
\* takes the first item
QueueTake(status) ==
    /\ ~InCall(QueueThread)
    /\ cl_queue.process = 1
    /\ cl_queue.head # <<>>
    /\ cl_queue.lock = NoThread
    /\ cl_queue' = [cl_queue EXCEPT !.head = Tail(@)]
    /\ cl_thread' = [cl_thread EXCEPT ![QueueThread] =
           [fn |-> "clrt_event_set_status", pc |-> "set_lock", list |-> <<>>,
            i |-> 0, event |-> Head(cl_queue.head), arg |-> status,
            ret |-> "", calls |-> 0]]
    /\ UNCHANGED <<cl_event, mvars, svars>>

\* it stops when the queue is empty
QueueStop ==
    /\ ~InCall(QueueThread)
    /\ cl_queue.process = 1
    /\ cl_queue.head = <<>>
    /\ cl_queue.lock = NoThread
    /\ cl_queue' = [cl_queue EXCEPT !.process = 0]
    /\ UNCHANGED <<cl_event, cl_thread, mvars, svars>>

\* and gives the event of the item its final status
QueueSetStatus ==
    /\ InCall(QueueThread)
    /\ UNCHANGED <<mvars, svars>>
    /\ LET th == cl_thread[QueueThread]
       IN  clrt_event_set_status(QueueThread, th.event, th.arg, ClReturn(th, ""))

ClWaitNext ==
    \/ \E ev \in {"e1", "e2"} : EnqueueCommand(ev)
    \/ \E t \in ClThreads, event_list \in WaitLists :
          WaitForEventsCall(t, event_list)
    \/ \E t \in ClThreads : clWaitForEvents(t)
    \/ \E t \in ClThreads : FinishCall(t)
    \/ \E t \in ClThreads : clFinish(t)
    \/ \E status \in FinalStatuses : QueueTake(status)
    \/ QueueStop
    \/ QueueSetStatus

ClWaitSpec == Init /\ [][ClWaitNext]_vars

\* the host threads and the thread of the queue are scheduled fairly: a
\* call that can take a step takes it
ClWaitFairSpec ==
    /\ ClWaitSpec
    /\ \A t \in ClThreads : WF_vars(clWaitForEvents(t) \/ clFinish(t))
    /\ WF_vars((\E status \in FinalStatuses : QueueTake(status))
               \/ QueueStop \/ QueueSetStatus)

\* the events thread t waits for in the call it is in
Listed(t) == {cl_thread[t].list[k] : k \in 1 .. Len(cl_thread[t].list)}

\* thread t is in clrt_wait, in a call of clWaitForEvents or clFinish
InWait(t) ==
    cl_thread[t].pc \in {"wait_queue", "wait_start", "wait_lock",
                         "wait_test", "wait_cond", "wait_done"}

\* the event has been given a final status
Final(ev) == cl_event[ev].valid /\ cl_event[ev].status <= CL_COMPLETE

\* C39: a thread that waits in clWaitForEvents or clFinish returns from
\* the call once every event it waits for has been given a final status,
\* CL_COMPLETE or an error code.
WaitReleased ==
    \A t \in ClThreads :
        (InWait(t) /\ \A ev \in Listed(t) : Final(ev)) ~> ~InCall(t)

\* it does when the final status is CL_COMPLETE: no wake-up is lost
WaitReleasedComplete ==
    \A t \in ClThreads :
        (InWait(t) /\ \A ev \in Listed(t) :
                          cl_event[ev].valid /\ cl_event[ev].status = CL_COMPLETE)
            ~> ~InCall(t)

\* a call returns CL_SUCCESS only when the events it waited for are complete
WaitReturnsComplete ==
    \A t \in ClThreads :
        (/\ cl_thread[t].fn = "clWaitForEvents"
         /\ ~InCall(t)
         /\ cl_thread[t].ret = "CL_SUCCESS")
            => \A ev \in Listed(t) : cl_event[ev].status = CL_COMPLETE

\* clrt_wait starts the processing of a queue that has pending items
\* before it blocks
WaitStartsQueue ==
    [][\A t \in ClThreads :
          (cl_thread[t].pc = "wait_start" /\ cl_thread'[t].pc = "wait_lock"
              /\ cl_queue.head # <<>>)
             => cl_queue'.process = 1]_vars

(***************************************************************************)
(* C36: no deadlock on the directory locks                                 *)
(***************************************************************************)
\* the frames that wait in the queue of a directory lock
LockWaiters ==
    {s \in StackIds : \E b \in Blocks : \E i \in 1 .. Len(LockOf(b).queue) :
                          LockOf(b).queue[i] = s}

\* the next event is a retry of a top-level access whose module has used
\* up the retries of the model
RetryCapped ==
    /\ aborted = ""
    /\ events # <<>>
    /\ e.delay = 0
    /\ stacks[e.st].err
    /\ \/ /\ e.ev \in {"EV_MOD_LOAD_ACTION", "EV_MOD_LOAD_MISS"}
          /\ counters[stacks[e.st].mod].read_retries = MaxRetries
       \/ /\ e.ev \in {"EV_MOD_STORE_ACTION", "EV_MOD_STORE_FINISH"}
          /\ counters[stacks[e.st].mod].write_retries = MaxRetries

\* the run has ended before its accesses have
Halted == RetryCapped \/ aborted # ""

\* only a down-up request waits in the queue of a lock, and the lock it
\* waits for is held
OnlyDownupWaits ==
    \A b \in Blocks : \A i \in 1 .. Len(LockOf(b).queue) :
        LET s == LockOf(b).queue[i]
        IN  /\ stacks[s].used
            /\ stacks[s].blocking
            /\ DownUp(stacks[s].ret_stack)
            /\ LockOf(b).lock

\* while an access is in flight an event is scheduled
NeverStuck ==
    (\E s \in StackIds : stacks[s].used) => events # <<>>

\* the frames that wait for a lock are all granted it: whenever frames
\* wait, a state follows in which none of them, and no other, waits
WaiterGranted ==
    (LockWaiters # {}) ~> (LockWaiters = {} \/ Halted)

\* every top-level access returns: whenever accesses are in flight, a state
\* follows in which all of them have returned
AccessReturns ==
    (\E s \in StackIds : TopLevel(s)) ~> (NoAccess \/ Halted)

\* C36: only down-up requests wait for a directory lock, an event is
\* scheduled whenever an access is in flight, and under the fair event
\* kernel every waiter is granted its lock and every top-level load or
\* store returns, unless its retries reach the cap of the model.
NoLockDeadlock ==
    /\ [](aborted = "" => (OnlyDownupWaits /\ NeverStuck))
    /\ WaiterGranted
    /\ AccessReturns

\* a down-up request waits for a lock that an access holds
NoLockDeadlockWitness ==
    \E s \in LockWaiters :
        /\ stacks[s].blocking
        /\ \E b \in Blocks :
              /\ LockOf(b).lock
              /\ stacks[s].id \notin LockOf(b).holders
              /\ \E i \in 1 .. Len(LockOf(b).queue) : LockOf(b).queue[i] = s

\* the same runs of the hierarchy with the peer cache, with a weakly fair
\* event kernel
FairPeerSpec == PeerSpec /\ WF_vars(PeerNext)

====
